---- MODULE Spec2Model ----
(***************************************************************************)
(* AgentCeli budget-and-health control plane:                              *)
(*   APIRateLimiter        (src/api_rate_limiter.py)                       *)
(*   APIUsageMonitor       (src/api_usage_monitor.py)                      *)
(*   DataCollectionWatchdog(src/data_collection_watchdog.py)               *)
(*   AgentCeliWatchdog     (src/agentceli_watchdog.py)                     *)
(*   agentceli_control.py  (src/agentceli_control.py)                      *)
(***************************************************************************)
EXTENDS Integers, Sequences, FiniteSets, TLC

(***************************************************************************)
(* Python floats.  The limiter keeps money in IEEE-754 doubles.  A double  *)
(* d with 0 <= d < 16384 that is 0 or at least 2^-6 is a whole number of   *)
(* quanta of 2^-58 dollars; it is written here as three limbs <<h, m, l>>  *)
(* in base 2^21, d = (h * 2^42 + m * 2^21 + l) * 2^-58.  FAdd is the       *)
(* double addition of Python's `+`: the exact sum rounded to 53            *)
(* significant bits, ties to even.                                         *)
(***************************************************************************)
Base == 2^21

Pow2(k) == 2^k

\* Number of significant bits of a limb (0 for 0).
BitLen(x) == CHOOSE k \in 0..30 : x < Pow2(k) /\ (k = 0 \/ x >= Pow2(k - 1))

FZero == <<0, 0, 0>>

FLt(a, b) ==
    \/ a[1] < b[1]
    \/ a[1] = b[1] /\ a[2] < b[2]
    \/ a[1] = b[1] /\ a[2] = b[2] /\ a[3] < b[3]

FGt(a, b) == FLt(b, a)

FGe(a, b) == ~FLt(a, b)

FLe(a, b) == ~FLt(b, a)

\* Carry normalisation of limbs that may have reached Base.
FNorm(h, m, l) ==
    LET m1 == m + (l \div Base)
    IN  <<h + (m1 \div Base), m1 % Base, l % Base>>

\* Round an exact limb triple to 53 significant bits, ties to even.
FRound(x) ==
    LET d == IF x[1] = 0 THEN 0 ELSE BitLen(x[1]) - 11
    IN  IF d <= 0 THEN x
        ELSE LET q    == Pow2(d)
                 r    == x[3] % q
                 half == q \div 2
                 odd  == (x[3] \div q) % 2 = 1
                 up   == r > half \/ (r = half /\ odd)
             IN  FNorm(x[1], x[2], x[3] - r + (IF up THEN q ELSE 0))

FAdd(a, b) == FRound(FNorm(a[1] + b[1], a[2] + b[2], a[3] + b[3]))

\* x * 100 in doubles: the exact product, rounded once.
FMul100(x) == FRound(FNorm(x[1] * 100, x[2] * 100, x[3] * 100))

\* x / 1.0 in doubles, which is x.
FDivOne(x) == x

(***************************************************************************)
(* Money literals (doubles, in limbs).                                     *)
(***************************************************************************)
\* 0.02 and 0.5 and 9.5: costs passed by callers in the checked runs.
Cost002 == <<1310, 1509949, 922747>>

Cost050 == <<32768, 0, 0>>

Cost950 == <<622592, 0, 0>>

\* 9.0
Cost900 == <<589824, 0, 0>>

\* The double 1.00
F100 == <<65536, 0, 0>>

(***************************************************************************)
(* APIRateLimiter: configuration in force after __init__.                  *)
(* load_config() runs before rate_limits is assigned, so the defaults of   *)
(* lines 31-38 are the limits in force.  The model keeps one paid source   *)
(* of the table and one name that is not in the table.                     *)
(***************************************************************************)
KnownApis == {"santiment"}

UnknownApis == {"unknown_api"}

Apis == KnownApis \cup UnknownApis

\* "santiment": {"rpm": 10, "daily_cost_limit": 1.00}
santiment_rpm == 10

rate_limits ==
    [a \in KnownApis |-> [rpm |-> santiment_rpm, daily_cost_limit |-> F100]]

\* self.total_daily_limit = 10.00
total_daily_limit == <<655360, 0, 0>>

\* Order in which sum(self.daily_costs.values()) visits the entries.  With
\* at most two non-zero entries the double sum is the same in any order.
ApiOrder == <<"santiment", "unknown_api">>

VARIABLES
    now,              \* wall clock, seconds
    emergency_stop,   \* APIRateLimiter.emergency_stop
    daily_costs,      \* APIRateLimiter.daily_costs: api -> double (0.0 if absent)
    hourly_requests,  \* APIRateLimiter.hourly_requests: api -> (minute -> count), zero entries left out
    alerts_sent,      \* APIUsageMonitor.alerts_sent
    alerts,           \* logs/api_alerts.json
    last,             \* the last call made and what it returned
    collector,        \* a collector process (agentceli_hybrid.py / agentceli_free.py) is running
    pid_ok,           \* agentceli.pid exists and names the running collector
    acw_alive,        \* the AgentCeliWatchdog process is running
    low_data_start_time,  \* DataCollectionWatchdog.low_data_start_time
    last_dataset_count,   \* DataCollectionWatchdog.last_dataset_count
    restart_count,    \* AgentCeliWatchdog.restart_count
    dcw_wake,         \* when DataCollectionWatchdog's sleep ends
    acw_wake,         \* when AgentCeliWatchdog's sleep ends
    dcw_last,         \* what DataCollectionWatchdog's last cycle did
    acw_last,         \* what AgentCeliWatchdog's last cycle did
    \* History of the run, read by the properties only:
    ticks,            \* how often time has been advanced
    asked,            \* can_make_request calls in the current minute
    open,             \* an allowed can_make_request has not been logged yet
    paired,           \* in this minute every log_request followed its own allowed check
    nsucc,            \* api -> log_request calls with success and a cost since the last reset
    h_sum,            \* api -> the costs of the log_request calls with success since the last reset, added up
    h_halted,         \* emergency_stop_all has been called and resume_operations not since
    h_over,           \* the total has reached total_daily_limit and no reset since
    h_resumed,        \* resume_operations was called at 95% or more and no reset since
    h_first_low,      \* when the present run of checks with a low dataset count began
    h_shutdowns,      \* shutdown_agentceli calls in that run
    h_healthy_at,     \* when a check last found the count recovered
    h_chronic,        \* the collector was shut down for a shortfall, no operator has started it since
    h_since,          \* low_data_start_time before the last pass of DataCollectionWatchdog
    h_late,           \* passes of DataCollectionWatchdog that ran late
    h_unhealthy,      \* passes of AgentCeliWatchdog whose health_check() returned False
    h_signals,        \* what the last health_check() of AgentCeliWatchdog was given
    h_no_collector,   \* the last pass of DataCollectionWatchdog began with no collector running
    h_days,           \* the alerts emitted and the calls logged, by day and minute
    status_call,      \* the last call of _get_api_status with its arguments and result
    ctl_call,         \* the last run of agentceli_control.py: command, exit code, whether the
                      \* collector ran and answered before it, runs so far
    built,            \* the last construction of an APIRateLimiter: the configuration file it
                      \* read, whether __init__ returned, the rate_limits then in force
    h_all,            \* every alert passed to send_alert, in the order of the calls
    h_restart,        \* what the last restart_agentceli() tried and what it returned
    loops,            \* each monitoring loop: where it is, its last sleep, its last error
    sig,              \* each watchdog process under SIGINT: where run() is, where it was
                      \* when it exited, whether it logged that it stopped
    lock,             \* APIRateLimiter.lock: the thread that holds it, or Free
    th,               \* each thread in a function wrapped by check_api_rate_limit: where
                      \* it is, its arguments, what its call did
    burst             \* the allowed checks since the first of them less than 60 s ago

limiterVars == <<emergency_stop, daily_costs, hourly_requests>>

monitorVars == <<alerts_sent, alerts>>

\* now.strftime("%Y-%m-%d-%H-%M"): one key per minute, ordered as time is.
CurrentMinute(t) == t \div 60

\* defaultdict(int) read
Requests(hr, api, minute) ==
    IF minute \in DOMAIN hr[api] THEN hr[api][minute] ELSE 0

\* sum(self.daily_costs.values())
RECURSIVE SumCosts(_, _)
SumCosts(dc, i) ==
    IF i = 0 THEN FZero ELSE FAdd(SumCosts(dc, i - 1), dc[ApiOrder[i]])

TotalDailyCost == SumCosts(daily_costs, Len(ApiOrder))

Verdict(allowed, reason) == [allowed |-> allowed, reason |-> reason]

\* can_make_request with the cost test off by one (>= for >)
CanMakeRequest_CostOffByOne(api, cost) ==
    IF emergency_stop
    THEN Verdict(FALSE, "Emergency stop activated")
    ELSE IF FGe(TotalDailyCost, total_daily_limit)
    THEN Verdict(FALSE, "Daily cost limit exceeded")
    ELSE IF api \notin DOMAIN rate_limits
    THEN Verdict(TRUE, "Unknown API - allowed")
    ELSE IF Requests(hourly_requests, api, CurrentMinute(now)) >= rate_limits[api].rpm
    THEN Verdict(FALSE, "Rate limit exceeded")
    ELSE IF FGt(cost, FZero)
            /\ FGe(FAdd(daily_costs[api], cost), rate_limits[api].daily_cost_limit)
    THEN Verdict(FALSE, "Daily cost limit for api")
    ELSE Verdict(TRUE, "Request allowed")

\* can_make_request that lets a name it does not know pass before it looks
\* at the total
CanMakeRequest_UnknownFirst(api, cost) ==
    IF emergency_stop
    THEN Verdict(FALSE, "Emergency stop activated")
    ELSE IF api \notin DOMAIN rate_limits
    THEN Verdict(TRUE, "Unknown API - allowed")
    ELSE IF FGe(TotalDailyCost, total_daily_limit)
    THEN Verdict(FALSE, "Daily cost limit exceeded")
    ELSE IF Requests(hourly_requests, api, CurrentMinute(now)) >= rate_limits[api].rpm
    THEN Verdict(FALSE, "Rate limit exceeded")
    ELSE IF FGt(cost, FZero)
            /\ FGt(FAdd(daily_costs[api], cost), rate_limits[api].daily_cost_limit)
    THEN Verdict(FALSE, "Daily cost limit for api")
    ELSE Verdict(TRUE, "Request allowed")

\* can_make_request that compares the ledger, without the cost, to the cap
CanMakeRequest_CostNotAdded(api, cost) ==
    IF emergency_stop
    THEN Verdict(FALSE, "Emergency stop activated")
    ELSE IF FGe(TotalDailyCost, total_daily_limit)
    THEN Verdict(FALSE, "Daily cost limit exceeded")
    ELSE IF api \notin DOMAIN rate_limits
    THEN Verdict(TRUE, "Unknown API - allowed")
    ELSE IF Requests(hourly_requests, api, CurrentMinute(now)) >= rate_limits[api].rpm
    THEN Verdict(FALSE, "Rate limit exceeded")
    ELSE IF FGt(cost, FZero)
            /\ FGt(daily_costs[api], rate_limits[api].daily_cost_limit)
    THEN Verdict(FALSE, "Daily cost limit for api")
    ELSE Verdict(TRUE, "Request allowed")

\* can_make_request that holds a name it does not know to one request a minute
CanMakeRequest_UnknownLimited(api, cost) ==
    IF emergency_stop
    THEN Verdict(FALSE, "Emergency stop activated")
    ELSE IF FGe(TotalDailyCost, total_daily_limit)
    THEN Verdict(FALSE, "Daily cost limit exceeded")
    ELSE IF api \notin DOMAIN rate_limits
    THEN IF Requests(hourly_requests, api, CurrentMinute(now)) >= 1
         THEN Verdict(FALSE, "Rate limit exceeded")
         ELSE Verdict(TRUE, "Unknown API - allowed")
    ELSE IF Requests(hourly_requests, api, CurrentMinute(now)) >= rate_limits[api].rpm
    THEN Verdict(FALSE, "Rate limit exceeded")
    ELSE IF FGt(cost, FZero)
            /\ FGt(FAdd(daily_costs[api], cost), rate_limits[api].daily_cost_limit)
    THEN Verdict(FALSE, "Daily cost limit for api")
    ELSE Verdict(TRUE, "Request allowed")

\* can_make_request with the rpm test off by one (> for >=)
CanMakeRequest_RpmOffByOne(api, cost) ==
    IF emergency_stop
    THEN Verdict(FALSE, "Emergency stop activated")
    ELSE IF FGe(TotalDailyCost, total_daily_limit)
    THEN Verdict(FALSE, "Daily cost limit exceeded")
    ELSE IF api \notin DOMAIN rate_limits
    THEN Verdict(TRUE, "Unknown API - allowed")
    ELSE IF Requests(hourly_requests, api, CurrentMinute(now)) > rate_limits[api].rpm
    THEN Verdict(FALSE, "Rate limit exceeded")
    ELSE IF FGt(cost, FZero)
            /\ FGt(FAdd(daily_costs[api], cost), rate_limits[api].daily_cost_limit)
    THEN Verdict(FALSE, "Daily cost limit for api")
    ELSE Verdict(TRUE, "Request allowed")

\* can_make_request(api_name, cost): the returned (allowed, reason)
CanMakeRequest(api, cost) ==
    IF emergency_stop
    THEN Verdict(FALSE, "Emergency stop activated")
    ELSE IF FGe(TotalDailyCost, total_daily_limit)
    THEN Verdict(FALSE, "Daily cost limit exceeded")
    ELSE IF api \notin DOMAIN rate_limits
    THEN Verdict(TRUE, "Unknown API - allowed")
    ELSE IF Requests(hourly_requests, api, CurrentMinute(now)) >= rate_limits[api].rpm
    THEN Verdict(FALSE, "Rate limit exceeded")
    ELSE IF FGt(cost, FZero)
            /\ FGt(FAdd(daily_costs[api], cost), rate_limits[api].daily_cost_limit)
    THEN Verdict(FALSE, "Daily cost limit for api")
    ELSE Verdict(TRUE, "Request allowed")

Call(op, api, cost, verdict) ==
    [op |-> op, api |-> api, cost |-> cost,
     allowed |-> verdict.allowed, reason |-> verdict.reason]

NoVerdict == Verdict(FALSE, "")

\* A call of can_make_request: reads only.
CanMakeRequestCall(api, cost) ==
    /\ last' = Call("can_make_request", api, cost, CanMakeRequest(api, cost))
    /\ UNCHANGED <<now, limiterVars, monitorVars>>

\* self.hourly_requests[api_name][current_minute] += 1
CountRequest(hr, api, minute) ==
    [hr EXCEPT ![api] =
        [k \in DOMAIN hr[api] \cup {minute} |-> Requests(hr, api, k) + (IF k = minute THEN 1 ELSE 0)]]

\* the cost added whether or not the call succeeded
AddCost_IgnoresSuccess(dc, api, cost, success) ==
    IF FGt(cost, FZero)
    THEN [dc EXCEPT ![api] = FAdd(dc[api], cost)]
    ELSE dc

\* if success and cost > 0: self.daily_costs[api_name] += cost
AddCost(dc, api, cost, success) ==
    IF success /\ FGt(cost, FZero)
    THEN [dc EXCEPT ![api] = FAdd(dc[api], cost)]
    ELSE dc

LogRequest(api, cost, success) ==
    /\ hourly_requests' = CountRequest(hourly_requests, api, CurrentMinute(now))
    /\ daily_costs' = AddCost(daily_costs, api, cost, success)
    /\ last' = Call("log_request", api, cost, NoVerdict)
    /\ UNCHANGED <<now, emergency_stop, monitorVars>>

EmergencyStopAll ==
    /\ emergency_stop' = TRUE
    /\ last' = Call("emergency_stop_all", "", FZero, NoVerdict)
    /\ UNCHANGED <<now, daily_costs, hourly_requests, monitorVars>>

ResumeOperations ==
    /\ emergency_stop' = FALSE
    /\ last' = Call("resume_operations", "", FZero, NoVerdict)
    /\ UNCHANGED <<now, daily_costs, hourly_requests, monitorVars>>

\* self.daily_costs.clear()
ClearedCosts == [a \in Apis |-> FZero]

\* reset_daily_limits that also lifts the emergency stop
ResetDailyLimits_LiftsStop ==
    /\ daily_costs' = ClearedCosts
    /\ emergency_stop' = FALSE
    /\ last' = Call("reset_daily_limits", "", FZero, NoVerdict)
    /\ UNCHANGED <<now, hourly_requests, monitorVars>>

ResetDailyLimits ==
    /\ daily_costs' = ClearedCosts
    /\ last' = Call("reset_daily_limits", "", FZero, NoVerdict)
    /\ UNCHANGED <<now, emergency_stop, hourly_requests, monitorVars>>

\* cutoff = now - 2 hours; keys k < cutoff_str are deleted
cleanup_hours == 2

Pruned(hr, t) ==
    [a \in Apis |->
        [k \in {m \in DOMAIN hr[a] : m >= CurrentMinute(t - cleanup_hours * 3600)} |-> hr[a][k]]]

CleanupOldData ==
    /\ hourly_requests' = Pruned(hourly_requests, now)
    /\ last' = Call("cleanup_old_data", "", FZero, NoVerdict)
    /\ UNCHANGED <<now, emergency_stop, daily_costs, monitorVars>>

(***************************************************************************)
(* get_status() and _get_api_status().  The percentages are computed in    *)
(* doubles, (x / limit) * 100 >= p.  Both operations round monotonically,  *)
(* so each test is x >= t for the least double t that passes it:           *)
(*   (t / 10.0) * 100 >= 80  from t = 7.999999999999999                    *)
(*   (t / 10.0) * 100 >= 95  from t = 9.5                                  *)
(*   (t / 1.0) * 100 >= 70   from t = 0.7                                  *)
(*   (t / 1.0) * 100 >= 90   from t = 0.9                                  *)
(***************************************************************************)
LeastTotalAt80 == <<524287, 2097151, 2096896>>

LeastTotalAt95 == <<622592, 0, 0>>

LeastCostAt70 == <<45875, 419430, 838848>>

LeastCostAt90 == <<58982, 838860, 1677728>>

\* status["usage_percentage"] >= p, for the p the monitor tests
UsagePercentageGe(p) ==
    FGe(TotalDailyCost, IF p = 95 THEN LeastTotalAt95 ELSE LeastTotalAt80)

\* (minute_requests / limits["rpm"]) * 100 >= p; for rpm = 10 the double
\* quotient times 100 is 70.0 at 7 and 90.0 at 9, as in whole numbers.
RpmUsageGe(api, p) ==
    Requests(hourly_requests, api, CurrentMinute(now)) * 100 >= p * rate_limits[api].rpm

\* (daily_cost / limits["daily_cost_limit"]) * 100 >= p, 0 when the limit is 0
CostUsageGe(api, p) ==
    /\ FGt(rate_limits[api].daily_cost_limit, FZero)
    /\ FGe(daily_costs[api], IF p = 90 THEN LeastCostAt90 ELSE LeastCostAt70)

ApiStatus(api) ==
    IF RpmUsageGe(api, 90) \/ CostUsageGe(api, 90) THEN "CRITICAL"
    ELSE IF RpmUsageGe(api, 70) \/ CostUsageGe(api, 70) THEN "WARNING"
    ELSE "OK"

\* The doubles 70.0 and 90.0 that the usages are compared with
F70 == <<4587520, 0, 0>>

F90 == <<5898240, 0, 0>>

\* (minute_requests / limits["rpm"]) * 100 >= p.  For the rpm values of the
\* table (10, 50, 60, 600, 1200) the doubles compare as the whole numbers do.
RpmUsagePercentGe(minute_requests, limits, p) == minute_requests * 100 >= p * limits.rpm

\* (daily_cost / limits["daily_cost_limit"]) * 100 if the limit is > 0, else
\* 0, for the limits 1.00 and 0.0.
CostUsagePercent(daily_cost, limits) ==
    IF FGt(limits.daily_cost_limit, FZero) THEN FMul100(FDivOne(daily_cost)) ELSE FZero

\* _get_api_status that wants both usages over a threshold
GetApiStatus_NeedsBoth(minute_requests, daily_cost, limits) ==
    LET cost_usage == CostUsagePercent(daily_cost, limits)
    IN  IF RpmUsagePercentGe(minute_requests, limits, 90) /\ FGe(cost_usage, F90)
        THEN "CRITICAL"
        ELSE IF RpmUsagePercentGe(minute_requests, limits, 70) /\ FGe(cost_usage, F70)
        THEN "WARNING"
        ELSE "OK"

\* _get_api_status(api_name, minute_requests, daily_cost, limits)
GetApiStatus(minute_requests, daily_cost, limits) ==
    LET cost_usage == CostUsagePercent(daily_cost, limits)
    IN  IF RpmUsagePercentGe(minute_requests, limits, 90) \/ FGe(cost_usage, F90)
        THEN "CRITICAL"
        ELSE IF RpmUsagePercentGe(minute_requests, limits, 70) \/ FGe(cost_usage, F70)
        THEN "WARNING"
        ELSE "OK"

\* One call of _get_api_status and what it returned
StatusCall(minute_requests, daily_cost, limits) ==
    [called |-> TRUE, minute_requests |-> minute_requests, daily_cost |-> daily_cost,
     limits |-> limits, status |-> GetApiStatus(minute_requests, daily_cost, limits)]

NoStatusCall ==
    [called |-> FALSE, minute_requests |-> 0, daily_cost |-> FZero,
     limits |-> [rpm |-> santiment_rpm, daily_cost_limit |-> F100], status |-> "OK"]

GetStatus ==
    /\ last' = Call("get_status", "", TotalDailyCost, NoVerdict)
    /\ UNCHANGED <<now, limiterVars, monitorVars>>

(***************************************************************************)
(* APIUsageMonitor                                                         *)
(***************************************************************************)
\* datetime.now().strftime("%H:%M")
minutes_per_day == 1440

ClockMinute(t) == (t \div 60) % minutes_per_day

\* The alert stored, without its timestamp, which nothing reads.
Alert(type, about) == [type |-> type, about |-> about]

\* send_alert: append, keep the last 100
alerts_kept == 100

\* send_alert that keeps the first 100
Stored_KeepsFirst(file, alert) ==
    LET all == Append(file, alert)
    IN  IF Len(all) > alerts_kept
        THEN SubSeq(all, 1, alerts_kept)
        ELSE all

Stored(file, alert) ==
    LET all == Append(file, alert)
    IN  IF Len(all) > alerts_kept
        THEN SubSeq(all, Len(all) - alerts_kept + 1, Len(all))
        ELSE all

SendAlert(type, about) ==
    /\ alerts' = Stored(alerts, Alert(type, about))
    /\ last' = Call("send_alert", about, FZero, NoVerdict)
    /\ UNCHANGED <<now, limiterVars, alerts_sent>>

\* The order of status['apis'].items()
KnownOrder == <<"santiment">>

\* The strings kept in alerts_sent: f"{api_name}_critical_{current_time}" and
\* "daily_80", as (name, kind, minute of the day).
CriticalKey(api) == <<api, "critical", ClockMinute(now)>>

Daily80Key == <<"daily", "80", 0>>

Daily95Key == <<"daily", "95", 0>>

\* the for loop over status['apis']: the alerts sent and the keys added
RECURSIVE CriticalLoop(_, _)
CriticalLoop(i, acc) ==
    IF i > Len(KnownOrder) THEN acc
    ELSE LET api == KnownOrder[i]
         IN  IF ApiStatus(api) = "CRITICAL" /\ CriticalKey(api) \notin acc.sent
             THEN CriticalLoop(i + 1,
                     [sent |-> acc.sent \cup {CriticalKey(api)},
                      file |-> Stored(acc.file, Alert("API_CRITICAL", api))])
             ELSE CriticalLoop(i + 1, acc)

\* check_usage_and_alert that stops once, as it alerts once
CheckUsageAndAlert_StopsOnce ==
    LET high   == UsagePercentageGe(80) /\ Daily80Key \notin alerts_sent
        first  == IF high
                  THEN [sent |-> alerts_sent \cup {Daily80Key},
                        file |-> Stored(alerts, Alert("HIGH_USAGE", ""))]
                  ELSE [sent |-> alerts_sent, file |-> alerts]
        looped == CriticalLoop(1, first)
        stop   == UsagePercentageGe(95) /\ Daily95Key \notin alerts_sent
    IN  /\ alerts_sent' = IF stop THEN looped.sent \cup {Daily95Key} ELSE looped.sent
        /\ alerts' = IF stop THEN Stored(looped.file, Alert("EMERGENCY_STOP", ""))
                     ELSE looped.file
        /\ emergency_stop' = (emergency_stop \/ stop)
        /\ last' = Call("check_usage_and_alert", "", TotalDailyCost, NoVerdict)
        /\ UNCHANGED <<now, daily_costs, hourly_requests>>

CheckUsageAndAlert ==
    LET high   == UsagePercentageGe(80) /\ Daily80Key \notin alerts_sent
        first  == IF high
                  THEN [sent |-> alerts_sent \cup {Daily80Key},
                        file |-> Stored(alerts, Alert("HIGH_USAGE", ""))]
                  ELSE [sent |-> alerts_sent, file |-> alerts]
        looped == CriticalLoop(1, first)
        stop   == UsagePercentageGe(95)
    IN  /\ alerts_sent' = looped.sent
        /\ alerts' = IF stop THEN Stored(looped.file, Alert("EMERGENCY_STOP", ""))
                     ELSE looped.file
        /\ emergency_stop' = (emergency_stop \/ stop)
        /\ last' = Call("check_usage_and_alert", "", TotalDailyCost, NoVerdict)
        /\ UNCHANGED <<now, daily_costs, hourly_requests>>

\* Time passes, and a new day clears the ledger.
Tick_NewDayClears(d) ==
    /\ now' = now + d
    /\ daily_costs' = IF (now + d) \div (minutes_per_day * 60) # now \div (minutes_per_day * 60)
                      THEN ClearedCosts ELSE daily_costs
    /\ last' = Call("tick", "", FZero, NoVerdict)
    /\ UNCHANGED <<emergency_stop, hourly_requests, monitorVars>>

\* Time passes.
Tick(d) ==
    /\ now' = now + d
    /\ last' = Call("tick", "", FZero, NoVerdict)
    /\ UNCHANGED <<limiterVars, monitorVars>>

(***************************************************************************)
(* agentceli_control.py, run as a command.  main() calls controller.stop() *)
(* or controller.start() and drops the result, so the exit code is 0       *)
(* unless the script dies of an exception (crash).  `answers` is whether   *)
(* GET /api/status is answered with 200; only a running collector answers. *)
(***************************************************************************)
processVars == <<collector, pid_ok>>

\* AgentCeliController.is_running()
IsRunning(c, answers) == c /\ answers

\* `agentceli_control.py stop`: [rc, collector, pid_ok] afterwards
ControlStop(crash, answers) ==
    IF crash
    THEN [rc |-> 1, collector |-> collector, pid_ok |-> pid_ok]
    ELSE IF ~IsRunning(collector, answers)
    THEN [rc |-> 0, collector |-> collector, pid_ok |-> pid_ok]
    ELSE IF pid_ok
    THEN [rc |-> 0, collector |-> FALSE, pid_ok |-> FALSE]
    ELSE [rc |-> 0, collector |-> collector, pid_ok |-> pid_ok]

\* `agentceli_control.py start` from process state c: spawned is whether
\* the script it spawns stays up
ControlStart(c, p, crash, answers, spawned) ==
    IF crash
    THEN [rc |-> 1, collector |-> c, pid_ok |-> p]
    ELSE IF IsRunning(c, answers)
    THEN [rc |-> 0, collector |-> c, pid_ok |-> p]
    ELSE [rc |-> 0, collector |-> (c \/ spawned), pid_ok |-> spawned]

(***************************************************************************)
(* DataCollectionWatchdog                                                  *)
(***************************************************************************)
None == -1

check_interval == 300

shutdown_threshold == 1800

min_datasets == 3

\* get_agentceli_processes(): command lines with "agentceli" and "python"
\* and without "data_collection_watchdog"; agentceli_watchdog.py is one.
DcwProcesses ==
    (IF collector THEN {"collector"} ELSE {})
        \cup (IF acw_alive THEN {"agentceli_watchdog"} ELSE {})

\* shutdown_agentceli(): [ok, collector, pid_ok, acw_alive] afterwards.
\* killed is whether terminate()/kill() ends the processes of the fallback.
ShutdownAgentceli(crash, answers, killed) ==
    LET ctl == ControlStop(crash, answers)
    IN  IF ctl.rc = 0
        THEN [ok |-> TRUE, collector |-> ctl.collector, pid_ok |-> ctl.pid_ok,
              acw_alive |-> acw_alive]
        ELSE IF killed
        THEN [ok |-> TRUE, collector |-> FALSE, pid_ok |-> FALSE, acw_alive |-> FALSE]
        ELSE [ok |-> (DcwProcesses = {}), collector |-> collector, pid_ok |-> pid_ok,
              acw_alive |-> acw_alive]

\* check_data_health() that shuts down only after more than the threshold
CheckDataHealth_AfterThreshold(count, t) ==
    IF count >= min_datasets
    THEN [ok |-> TRUE, start |-> None]
    ELSE IF low_data_start_time = None
    THEN [ok |-> TRUE, start |-> t]
    ELSE IF shutdown_threshold - (t - low_data_start_time) >= 0
    THEN [ok |-> TRUE, start |-> low_data_start_time]
    ELSE [ok |-> FALSE, start |-> low_data_start_time]

\* check_data_health() that keeps the timer when the count has recovered
CheckDataHealth_KeepsTimer(count, t) ==
    IF count >= min_datasets
    THEN [ok |-> TRUE, start |-> low_data_start_time]
    ELSE IF low_data_start_time = None
    THEN [ok |-> TRUE, start |-> t]
    ELSE IF shutdown_threshold - (t - low_data_start_time) > 0
    THEN [ok |-> TRUE, start |-> low_data_start_time]
    ELSE [ok |-> FALSE, start |-> low_data_start_time]

\* check_data_health() at current_time = t with dataset_count = count:
\* [ok, start], start the low_data_start_time afterwards
CheckDataHealth(count, t) ==
    IF count >= min_datasets
    THEN [ok |-> TRUE, start |-> None]
    ELSE IF low_data_start_time = None
    THEN [ok |-> TRUE, start |-> t]
    ELSE IF shutdown_threshold - (t - low_data_start_time) > 0
    THEN [ok |-> TRUE, start |-> low_data_start_time]
    ELSE [ok |-> FALSE, start |-> low_data_start_time]

DcwReport(t, processes, checked, count, shutdown) ==
    [at |-> t, processes |-> processes, checked |-> checked, count |-> count,
     shutdown |-> shutdown]

Later(t, wake, late) == (IF t >= wake THEN t ELSE wake) + late

\* The pass of run() that clears the timer after any shutdown_agentceli()
DcwCycle_ClearsOnFailure(count, crash, answers, killed, late) ==
    LET t == Later(now, dcw_wake, late)
    IN  /\ IF DcwProcesses = {}
           THEN /\ low_data_start_time' = None
                /\ dcw_last' = DcwReport(t, 0, FALSE, last_dataset_count, "none")
                /\ UNCHANGED <<last_dataset_count, collector, pid_ok, acw_alive>>
           ELSE LET health == CheckDataHealth(count, t)
                    down   == ShutdownAgentceli(crash, answers, killed)
                IN  /\ last_dataset_count' = count
                    /\ IF health.ok
                       THEN /\ low_data_start_time' = health.start
                            /\ dcw_last' = DcwReport(t, Cardinality(DcwProcesses), TRUE,
                                                     count, "none")
                            /\ UNCHANGED <<collector, pid_ok, acw_alive>>
                       ELSE /\ low_data_start_time' = None
                            /\ collector' = down.collector
                            /\ pid_ok' = down.pid_ok
                            /\ acw_alive' = down.acw_alive
                            /\ dcw_last' = DcwReport(t, Cardinality(DcwProcesses), TRUE,
                                                     count, IF down.ok THEN "ok" ELSE "failed")
        /\ now' = t
        /\ dcw_wake' = t + check_interval
        /\ UNCHANGED <<restart_count, acw_wake, acw_last>>

\* One pass of the loop of run(), followed by time.sleep(check_interval).
\* The pass runs `late` seconds after the previous sleep ended.
DcwCycle(count, crash, answers, killed, late) ==
    LET t == Later(now, dcw_wake, late)
    IN  /\ IF DcwProcesses = {}
           THEN /\ low_data_start_time' = None
                /\ dcw_last' = DcwReport(t, 0, FALSE, last_dataset_count, "none")
                /\ UNCHANGED <<last_dataset_count, collector, pid_ok, acw_alive>>
           ELSE LET health == CheckDataHealth(count, t)
                    down   == ShutdownAgentceli(crash, answers, killed)
                IN  /\ last_dataset_count' = count
                    /\ IF health.ok
                       THEN /\ low_data_start_time' = health.start
                            /\ dcw_last' = DcwReport(t, Cardinality(DcwProcesses), TRUE,
                                                     count, "none")
                            /\ UNCHANGED <<collector, pid_ok, acw_alive>>
                       ELSE /\ low_data_start_time' =
                                   IF down.ok THEN None ELSE health.start
                            /\ collector' = down.collector
                            /\ pid_ok' = down.pid_ok
                            /\ acw_alive' = down.acw_alive
                            /\ dcw_last' = DcwReport(t, Cardinality(DcwProcesses), TRUE,
                                                     count, IF down.ok THEN "ok" ELSE "failed")
        /\ now' = t
        /\ dcw_wake' = t + check_interval
        /\ UNCHANGED <<restart_count, acw_wake, acw_last>>

(***************************************************************************)
(* AgentCeliWatchdog                                                       *)
(***************************************************************************)
acw_check_interval == 600

\* get_agentceli_processes(): as above, without any "watchdog" command line
AcwProcesses == IF collector THEN {"collector"} ELSE {}

\* What one scan returns: a process whose command line cannot be read
\* (AccessDenied) or a scan that raises leaves the collector out.
Found(found) == IF found THEN AcwProcesses ELSE {}

\* The three signals of one health_check()
Signals(data_fresh, api_healthy, found) ==
    [fresh |-> data_fresh, api |-> api_healthy, processes |-> Cardinality(Found(found))]

\* health_check() that asks for a process as well
HealthCheck_NeedsProcess(data_fresh, api_healthy, found) ==
    data_fresh /\ api_healthy /\ Found(found) # {}

\* health_check() given check_data_freshness(), check_api_health() and
\* whether get_agentceli_processes() finds the collector that runs
HealthCheck(data_fresh, api_healthy, found) ==
    IF data_fresh /\ api_healthy THEN TRUE
    ELSE IF Found(found) = {} THEN FALSE
    ELSE IF ~data_fresh \/ ~api_healthy THEN FALSE
    ELSE TRUE

\* stop_agentceli(): [ok, via, collector, pid_ok] afterwards
StopAgentceli(crash, answers, killed) ==
    LET ctl == ControlStop(crash, answers)
    IN  IF ctl.rc = 0
        THEN [ok |-> TRUE, via |-> "control", collector |-> ctl.collector,
              pid_ok |-> ctl.pid_ok]
        ELSE IF killed
        THEN [ok |-> TRUE, via |-> "direct", collector |-> FALSE, pid_ok |-> FALSE]
        ELSE [ok |-> (AcwProcesses = {}), via |-> "direct", collector |-> collector,
              pid_ok |-> pid_ok]

\* start_agentceli() that spawns agentceli_hybrid.py first and runs the
\* control script only when the spawned process did not stay up
StartAgentceli_SpawnFirst(c, p, crash, answers, spawned) ==
    LET ctl == ControlStart(c, p, crash, answers, spawned)
    IN  IF spawned
        THEN [ok |-> TRUE, via |-> "direct", collector |-> TRUE, pid_ok |-> p]
        ELSE [ok |-> (ctl.rc = 0), via |-> "control", collector |-> ctl.collector,
              pid_ok |-> ctl.pid_ok]

\* start_agentceli() from process state c, p: [ok, via, collector, pid_ok]
StartAgentceli(c, p, crash, answers, spawned) ==
    LET ctl == ControlStart(c, p, crash, answers, spawned)
    IN  IF ctl.rc = 0
        THEN [ok |-> TRUE, via |-> "control", collector |-> ctl.collector,
              pid_ok |-> ctl.pid_ok]
        ELSE [ok |-> spawned, via |-> "direct", collector |-> (c \/ spawned),
              pid_ok |-> p]

AcwReport(t, healthy, restarted, stop, start) ==
    [at |-> t, healthy |-> healthy, restarted |-> restarted, stop |-> stop,
     start |-> start]

\* One pass of the loop of run(), followed by time.sleep(check_interval).
\* stop_* and start_* are what the two commands of a restart meet.
AcwCycle_CountsSuccesses(data_fresh, api_healthy, found, stop_crash, stop_answers, killed, start_crash, start_answers, spawned, late) ==
    LET t == Later(now, acw_wake, late)
    IN  /\ acw_alive
        /\ api_healthy => collector
        /\ IF HealthCheck(data_fresh, api_healthy, found)
           THEN /\ acw_last' = AcwReport(t, TRUE, FALSE, "", "")
                /\ UNCHANGED <<restart_count, collector, pid_ok>>
           ELSE LET stop  == StopAgentceli(stop_crash, stop_answers, killed)
                    start == StartAgentceli(stop.collector, stop.pid_ok, start_crash,
                                            start_answers, spawned)
                IN  /\ restart_count' = IF start.ok THEN restart_count + 1 ELSE restart_count
                    /\ collector' = start.collector
                    /\ pid_ok' = start.pid_ok
                    /\ acw_last' = AcwReport(t, FALSE, start.ok, stop.via, start.via)
        /\ now' = t
        /\ acw_wake' = t + acw_check_interval
        /\ UNCHANGED <<acw_alive, low_data_start_time, last_dataset_count, dcw_wake,
                       dcw_last>>

\* One pass of the loop of run(), followed by time.sleep(check_interval).
\* stop_* and start_* are what the two commands of a restart meet.
AcwCycle(data_fresh, api_healthy, found, stop_crash, stop_answers, killed, start_crash, start_answers, spawned, late) ==
    LET t == Later(now, acw_wake, late)
    IN  /\ acw_alive
        /\ api_healthy => collector
        /\ IF HealthCheck(data_fresh, api_healthy, found)
           THEN /\ acw_last' = AcwReport(t, TRUE, FALSE, "", "")
                /\ UNCHANGED <<restart_count, collector, pid_ok>>
           ELSE LET stop  == StopAgentceli(stop_crash, stop_answers, killed)
                    start == StartAgentceli(stop.collector, stop.pid_ok, start_crash,
                                            start_answers, spawned)
                IN  /\ restart_count' = restart_count + 1
                    /\ collector' = start.collector
                    /\ pid_ok' = start.pid_ok
                    /\ acw_last' = AcwReport(t, FALSE, start.ok, stop.via, start.via)
        /\ now' = t
        /\ acw_wake' = t + acw_check_interval
        /\ UNCHANGED <<acw_alive, low_data_start_time, last_dataset_count, dcw_wake,
                       dcw_last>>

\* An operator starts the collector by hand.
OperatorStart ==
    /\ ~collector
    /\ collector' = TRUE
    /\ UNCHANGED <<now, pid_ok, acw_alive, low_data_start_time, last_dataset_count,
                   restart_count, dcw_wake, acw_wake, dcw_last, acw_last>>

(***************************************************************************)
(* The state after construction.                                           *)
(***************************************************************************)
watchdogVars ==
    <<collector, pid_ok, acw_alive, low_data_start_time, last_dataset_count,
      restart_count, dcw_wake, acw_wake, dcw_last, acw_last>>

rateHistory == <<asked, open, paired>>

acwHistory == <<h_unhealthy, h_signals>>

watchdogHistory ==
    <<h_first_low, h_shutdowns, h_healthy_at, h_chronic, h_since, h_late, h_no_collector,
      acwHistory>>

limiterHistory == <<h_halted, h_over>>

costHistory == <<nsucc, h_sum>>

monitorHistory == <<h_resumed>>

auxHistory == <<h_days, status_call, ctl_call, built, h_all>>

lateVars == <<h_restart, loops, sig, lock, th, burst>>

\* The three monitoring loops: main() of api_usage_monitor.py and the run()
\* of the two watchdogs
Loops == {"monitor", "acw", "dcw"}

monitor_interval == 300

backoff == 60

\* Every loop about to run its first iteration
LoopsStarted ==
    [l \in Loops |-> [pc |-> "check", wait |-> 0, error |-> FALSE, par |-> 0]]

\* The two watchdog processes, each at the top of its loop
Watchdogs == {"acw", "dcw"}

Running == [w \in Watchdogs |-> [pc |-> "check", at |-> "", logged |-> FALSE]]

\* The threads that call wrapped functions, and nobody holding the lock
Threads == {1, 2}

Free == 0

\* A thread outside the wrapper that has not called it yet
NoCall ==
    [pc |-> "idle", api |-> "", cost |-> FZero, result |-> "none", success |-> FALSE,
     invoked |-> 0, logs |-> 0, counted |-> 0, grew |-> FALSE, exact |-> FALSE,
     touched |-> FALSE]

\* No restart_agentceli() in the last pass
NoRestart ==
    [tried |-> FALSE, stop_rc |-> 0, stop_via |-> "", start_rc |-> 0, start_via |-> "",
     spawned |-> FALSE, reported |-> FALSE, after_failed |-> FALSE]

\* datetime.now() as a day and h_days before anything happened
Day(t) == t \div (minutes_per_day * 60)

\* No APIRateLimiter constructed yet
NoLimits == [a \in {} |-> [rpm |-> 0, daily_cost_limit |-> FZero]]

NotBuilt ==
    [done |-> FALSE, readable |-> FALSE, paid_apis |-> [a \in {} |-> FZero], ok |-> FALSE,
     rate_limits |-> NoLimits]

NoRun == [cmd |-> "", rc |-> 0, was |-> FALSE, answered |-> FALSE, runs |-> 0]

NoDays ==
    [high |-> [day |-> None, n |-> 0], crit |-> [minute |-> None, n |-> 0],
     logged |-> None, logs |-> 0]

vars ==
    <<now, emergency_stop, daily_costs, hourly_requests, alerts_sent, alerts, last,
      watchdogVars, ticks, rateHistory, costHistory, limiterHistory, monitorHistory, watchdogHistory, auxHistory, lateVars>>

Init ==
    /\ now = 0
    /\ emergency_stop = FALSE
    /\ daily_costs = ClearedCosts
    /\ hourly_requests = [a \in Apis |-> <<>>]
    /\ alerts_sent = {}
    /\ alerts = <<>>
    /\ last = Call("__init__", "", FZero, NoVerdict)
    /\ collector = TRUE
    /\ pid_ok = TRUE
    /\ acw_alive = TRUE
    /\ low_data_start_time = None
    /\ last_dataset_count = 0
    /\ restart_count = 0
    /\ dcw_wake = 0
    /\ acw_wake = 0
    /\ dcw_last = DcwReport(0, 0, FALSE, 0, "none")
    /\ acw_last = AcwReport(0, TRUE, FALSE, "", "")
    /\ ticks = 0
    /\ asked = 0
    /\ open = FALSE
    /\ paired = TRUE
    /\ nsucc = [a \in Apis |-> 0]
    /\ h_sum = ClearedCosts
    /\ h_halted = FALSE
    /\ h_over = FALSE
    /\ h_resumed = FALSE
    /\ h_first_low = None
    /\ h_shutdowns = 0
    /\ h_healthy_at = None
    /\ h_chronic = FALSE
    /\ h_since = None
    /\ h_late = 0
    /\ h_unhealthy = 0
    /\ h_no_collector = FALSE
    /\ h_signals = Signals(TRUE, TRUE, TRUE)
    /\ h_days = NoDays
    /\ status_call = NoStatusCall
    /\ ctl_call = NoRun
    /\ built = NotBuilt
    /\ h_all = <<>>
    /\ h_restart = NoRestart
    /\ loops = LoopsStarted
    /\ sig = Running
    /\ lock = Free
    /\ th = [t \in Threads |-> NoCall]
    /\ burst = [since |-> None, n |-> 0]

(***************************************************************************)
(* Bounds of the checked runs.                                             *)
(***************************************************************************)
\* log_request calls per source and minute
MaxLogs == 11

\* can_make_request calls per minute that are counted
MaxAsked == 12

\* advances of the clock
MaxTicks == 1

\* log_request calls per minute for a name that is not in rate_limits
MaxUnknownLogs == 2

LogCap(api) == IF api \in KnownApis THEN MaxLogs ELSE MaxUnknownLogs

NewMinute(d) == CurrentMinute(now + d) # CurrentMinute(now)

\* History kept along a can_make_request call
AskedStep(api, cost) ==
    /\ asked' = asked + 1
    /\ open' = CanMakeRequest(api, cost).allowed
    /\ paired' = (paired /\ ~open)

\* History kept along a log_request call
LoggedStep ==
    /\ open' = FALSE
    /\ paired' = (paired /\ open)
    /\ UNCHANGED asked

\* History kept along an advance of the clock by d
TickStep(d) ==
    /\ ticks' = ticks + 1
    /\ IF NewMinute(d)
       THEN asked' = 0 /\ open' = FALSE /\ paired' = ~open
       ELSE UNCHANGED rateHistory

\* History kept along a log_request call
SuccStep(api, cost, success) ==
    /\ nsucc' = IF success /\ cost # FZero
                THEN [nsucc EXCEPT ![api] = @ + 1]
                ELSE nsucc
    /\ h_sum' = IF success
                THEN [h_sum EXCEPT ![api] = FAdd(@, cost)]
                ELSE h_sum

\* History kept along a reset_daily_limits call
ResetStep ==
    /\ nsucc' = [a \in Apis |-> 0]
    /\ h_sum' = [a \in Apis |-> FZero]

(***************************************************************************)
(* SpecRate: one source, free calls, checked and logged in any order.      *)
(***************************************************************************)
RateCheck ==
    /\ asked < MaxAsked
    /\ CanMakeRequestCall("santiment", FZero)
    /\ AskedStep("santiment", FZero)
    /\ UNCHANGED <<watchdogVars, ticks, costHistory, limiterHistory, monitorHistory, watchdogHistory, auxHistory, lateVars>>

RateLog ==
    /\ Requests(hourly_requests, "santiment", CurrentMinute(now)) < MaxLogs
    /\ \E success \in BOOLEAN : LogRequest("santiment", FZero, success)
    /\ LoggedStep
    /\ UNCHANGED <<watchdogVars, ticks, costHistory, limiterHistory, monitorHistory, watchdogHistory, auxHistory, lateVars>>

RateTick ==
    /\ ticks < MaxTicks
    /\ Tick(60)
    /\ TickStep(60)
    /\ UNCHANGED <<watchdogVars, costHistory, limiterHistory, monitorHistory, watchdogHistory, auxHistory, lateVars>>

NextRate == RateCheck \/ RateLog \/ RateTick

SpecRate == Init /\ [][NextRate]_vars

\* What C2 says of the last can_make_request call, the asked-th of its minute
NthVerdict ==
    IF asked <= santiment_rpm
    THEN last.allowed
    ELSE ~last.allowed /\ last.reason = "Rate limit exceeded"

\* C2 as claimed: of the can_make_request calls made for a source with
\* rpm = N within one minute, the first N return true and the (N+1)th
\* returns false with a rate-limit reason, whatever is logged in between.
C2_AsClaimed == last.op = "can_make_request" => NthVerdict

\* C2 amended: the same, for the minutes in which every allowed
\* can_make_request was followed by its own log_request before the next
\* can_make_request and nothing else was logged for the source.
C2_PairedCallsLimitedToRpm ==
    (paired /\ last.op = "can_make_request") => NthVerdict

\* C2 witness: N calls were allowed and logged, and the (N+1)th is refused.
C2_Witness ==
    /\ paired
    /\ last.op = "can_make_request"
    /\ asked = santiment_rpm + 1
    /\ ~last.allowed
    /\ last.reason = "Rate limit exceeded"

(***************************************************************************)
(* Spec: the limiter's operations called in any order within one minute,   *)
(* for a source of rate_limits and for a name that is not in it.           *)
(***************************************************************************)
CheckCosts == {FZero, Cost050}

LogInputs == {<<"santiment", FZero>>, <<"santiment", Cost050>>, <<"unknown_api", Cost950>>}

idle == <<watchdogVars, ticks, rateHistory, monitorHistory, watchdogHistory, auxHistory, lateVars>>

\* History kept along a change of the ledger
OverStep ==
    h_over' = (h_over \/ FGe(SumCosts(daily_costs', Len(ApiOrder)), total_daily_limit))

DoCheck ==
    /\ \E api \in Apis, cost \in CheckCosts : CanMakeRequestCall(api, cost)
    /\ UNCHANGED <<limiterHistory, costHistory, idle>>

DoLog ==
    /\ \E in \in LogInputs, success \in BOOLEAN :
          /\ Requests(hourly_requests, in[1], CurrentMinute(now)) < LogCap(in[1])
          /\ LogRequest(in[1], in[2], success)
          /\ SuccStep(in[1], in[2], success)
    /\ OverStep
    /\ UNCHANGED <<h_halted, idle>>

DoStatus == GetStatus /\ UNCHANGED <<limiterHistory, costHistory, idle>>

DoStop == EmergencyStopAll /\ h_halted' = TRUE /\ UNCHANGED <<h_over, costHistory, idle>>

DoResume == ResumeOperations /\ h_halted' = FALSE /\ UNCHANGED <<h_over, costHistory, idle>>

DoReset == ResetDailyLimits /\ ResetStep /\ h_over' = FALSE /\ UNCHANGED <<h_halted, idle>>

DoCleanup == CleanupOldData /\ UNCHANGED <<limiterHistory, costHistory, idle>>

Next ==
    \/ DoCheck
    \/ DoLog
    \/ DoStatus
    \/ DoStop
    \/ DoResume
    \/ DoReset
    \/ DoCleanup

Spec == Init /\ [][Next]_vars

\* Every call that could be made now is refused.
AllRefused == \A api \in Apis, cost \in CheckCosts : ~CanMakeRequest(api, cost).allowed

\* C1: from emergency_stop_all() until resume_operations(), whatever else
\* is called in between (log_request, get_status, reset_daily_limits,
\* cleanup_old_data), every can_make_request call returns allowed = false,
\* for the source of rate_limits and for the unknown name, at any cost.
C1_StoppedUntilResume ==
    h_halted =>
        /\ AllRefused
        /\ last.op = "can_make_request" => ~last.allowed

\* C1 witness: stopped, the ledger reset since, and a call for the unknown
\* name (which nothing else refuses) is refused.
C1_Witness ==
    /\ h_halted
    /\ last.op = "can_make_request"
    /\ last.api = "unknown_api"
    /\ ~last.allowed
    /\ last.reason = "Emergency stop activated"
    /\ Requests(hourly_requests, "unknown_api", CurrentMinute(now)) > 0
    /\ TotalDailyCost = FZero

\* The three conditions of C5, for the call (api, cost)
NoneOfThree(api, cost) ==
    /\ ~emergency_stop
    /\ api \in KnownApis =>
          /\ Requests(hourly_requests, api, CurrentMinute(now)) < rate_limits[api].rpm
          /\ ~FGt(FAdd(daily_costs[api], cost), rate_limits[api].daily_cost_limit)

\* C5 as claimed: a can_make_request call returns allowed = true whenever
\* the emergency flag is false, the source's count of this minute is below
\* its rpm and daily_costs[source] + cost does not exceed its cap.
C5_AsClaimed ==
    last.op = "can_make_request" => (NoneOfThree(last.api, last.cost) => last.allowed)

\* C5 amended: it does whenever, besides those three, the sum of all ledger
\* entries is below total_daily_limit.
C5_AllowedWhenNothingRejects ==
    last.op = "can_make_request" =>
        ((NoneOfThree(last.api, last.cost) /\ FLt(TotalDailyCost, total_daily_limit))
            => last.allowed)

\* C5 witness: a paid call that brings the ledger exactly to the cap is
\* allowed, requests having been counted in this minute.
C5_Witness ==
    /\ last.op = "can_make_request"
    /\ last.api = "santiment"
    /\ last.cost = Cost050
    /\ last.allowed
    /\ FAdd(daily_costs["santiment"], Cost050) = F100
    /\ Requests(hourly_requests, "santiment", CurrentMinute(now)) = santiment_rpm - 1

\* C6: once the sum of the ledger entries has reached total_daily_limit,
\* every can_make_request call returns false, for the source of rate_limits
\* and for the unknown name, also with the emergency flag clear, until
\* reset_daily_limits() is called.
C6_GlobalBudgetBlocksAll ==
    h_over =>
        /\ AllRefused
        /\ last.op = "can_make_request" => ~last.allowed

\* C6 witness: the total is over the limit, the flag is clear, and a call for
\* the unknown name is refused for the daily cost.
C6_Witness ==
    /\ h_over
    /\ ~emergency_stop
    /\ last.op = "can_make_request"
    /\ last.api = "unknown_api"
    /\ ~last.allowed
    /\ last.reason = "Daily cost limit exceeded"

\* C29: a call for a name that is not in rate_limits is allowed exactly
\* when the emergency flag is clear and the total is below
\* total_daily_limit, whatever the name's count of the minute and at any
\* cost; the ledger entry of such a name holds the costs logged for it with
\* success, and it is part of the total.
C29_UnknownOnlyGloballyLimited ==
    /\ (last.op = "can_make_request" /\ last.api \in UnknownApis) =>
          (last.allowed <=> (~emergency_stop /\ FLt(TotalDailyCost, total_daily_limit)))
    /\ \A api \in UnknownApis :
          /\ daily_costs[api] = h_sum[api]
          /\ FGe(TotalDailyCost, daily_costs[api])

\* C29 witness: nothing was spent on the source of rate_limits; the costs
\* logged for the unknown name alone have brought the total to the limit,
\* and a call for the source of rate_limits is refused for it.
C29_Witness ==
    /\ daily_costs["santiment"] = FZero
    /\ FGe(daily_costs["unknown_api"], total_daily_limit)
    /\ ~emergency_stop
    /\ last.op = "can_make_request"
    /\ last.api = "santiment"
    /\ ~last.allowed
    /\ last.reason = "Daily cost limit exceeded"

\* C3: in every state daily_costs[source] is the sum, added up in doubles
\* in call order, of the costs of the log_request(source, cost, True) calls
\* made since the last reset_daily_limits(); a call with success = False
\* leaves the ledger as it was.
C3_LedgerIsSumOfSuccessfulCosts == daily_costs = h_sum

\* C3 witness: two paid calls succeeded since the last reset, more than two
\* were logged, and the ledger holds the two costs.
C3_Witness ==
    /\ last.op = "log_request"
    /\ nsucc["santiment"] = 2
    /\ Requests(hourly_requests, "santiment", CurrentMinute(now)) > 3
    /\ daily_costs["santiment"] = F100
    /\ nsucc["unknown_api"] = 1
    /\ daily_costs["unknown_api"] = Cost950

(***************************************************************************)
(* SpecCost: one source charged 0.02 a call, logged without asking, the    *)
(* minute changing once so that the request count falls back to 0.         *)
(***************************************************************************)
\* log_request calls in all
MaxCostLogs == 51

\* log_request calls with success = False
MaxFailedLogs == 1

RECURSIVE SumCounts(_, _)
SumCounts(counts, keys) ==
    IF keys = {} THEN 0
    ELSE LET k == CHOOSE x \in keys : TRUE
         IN  counts[k] + SumCounts(counts, keys \ {k})

Logged(api) == SumCounts(hourly_requests[api], DOMAIN hourly_requests[api])

CostCheck ==
    /\ \E cost \in {FZero, Cost002} : CanMakeRequestCall("santiment", cost)
    /\ UNCHANGED <<watchdogVars, ticks, rateHistory, costHistory, limiterHistory,
                   monitorHistory, watchdogHistory, auxHistory, lateVars>>

CostLog ==
    /\ Logged("santiment") < MaxCostLogs
    /\ \E success \in BOOLEAN :
          /\ ~success => Logged("santiment") - nsucc["santiment"] < MaxFailedLogs
          /\ LogRequest("santiment", Cost002, success)
          /\ SuccStep("santiment", Cost002, success)
    /\ OverStep
    /\ UNCHANGED <<watchdogVars, ticks, rateHistory, h_halted, monitorHistory, watchdogHistory, auxHistory, lateVars>>

CostTick ==
    /\ ticks < MaxTicks
    /\ Tick(60)
    /\ TickStep(60)
    /\ UNCHANGED <<watchdogVars, costHistory, limiterHistory, monitorHistory, watchdogHistory, auxHistory, lateVars>>

NextCost == CostCheck \/ CostLog \/ CostTick

SpecCost == Init /\ [][NextCost]_vars

\* The call just made would take the ledger of its source over the cap.
OverCap ==
    /\ last.op = "can_make_request"
    /\ last.api \in KnownApis
    /\ FGt(FAdd(daily_costs[last.api], last.cost), rate_limits[last.api].daily_cost_limit)

\* 50 calls of 0.02 added up in doubles: 1.0000000000000004
Fifty002 == <<65536, 0, 128>>

\* C4 as claimed: can_make_request(source, cost) returns false whenever
\* daily_costs[source] + cost exceeds the cap; with cap 1.00 and 0.02 a call
\* the ledger is 1.00 after 50 recorded calls and the 51st call is refused.
C4_AsClaimed ==
    /\ OverCap => ~last.allowed
    /\ nsucc["santiment"] = 50 =>
          /\ daily_costs["santiment"] = F100
          /\ ~CanMakeRequest("santiment", Cost002).allowed

\* C4 amended: can_make_request(source, cost) with cost > 0 returns false
\* whenever the double daily_costs[source] + cost exceeds the cap; with cap
\* 1.00 and 0.02 a call the ledger is 1.0000000000000004 after 50 recorded
\* calls and the 51st call, of cost 0.02, is refused.
C4_PaidCallOverCapRefused ==
    /\ (OverCap /\ FGt(last.cost, FZero)) => ~last.allowed
    /\ nsucc["santiment"] = 50 =>
          /\ daily_costs["santiment"] = Fifty002
          /\ ~CanMakeRequest("santiment", Cost002).allowed

\* C4 witness: the 51st call, in a minute with no request counted yet, is
\* refused for the source's daily cost.
C4_Witness ==
    /\ nsucc["santiment"] = 50
    /\ last.op = "can_make_request"
    /\ last.cost = Cost002
    /\ ~last.allowed
    /\ last.reason = "Daily cost limit for api"
    /\ Requests(hourly_requests, "santiment", CurrentMinute(now)) = 0

(***************************************************************************)
(* SpecMonitor: the monitor's check between logged calls, resumes and      *)
(* resets.                                                                 *)
(***************************************************************************)
\* log_request calls per source
MaxMonitorLogs == 2

\* alerts in the file before a check
MaxAlerts == 3

MonitorInputs == {<<"santiment", Cost050>>, <<"unknown_api", Cost900>>}

monitorIdle == <<watchdogVars, rateHistory, watchdogHistory, auxHistory, lateVars>>

MonCheck ==
    /\ Len(alerts) < MaxAlerts
    /\ CheckUsageAndAlert
    /\ h_halted' = (h_halted \/ emergency_stop')
    /\ UNCHANGED <<h_over, h_resumed, costHistory, ticks, monitorIdle>>

MonLog ==
    /\ \E in \in MonitorInputs :
          /\ Logged(in[1]) < MaxMonitorLogs
          /\ LogRequest(in[1], in[2], TRUE)
          /\ SuccStep(in[1], in[2], TRUE)
    /\ OverStep
    /\ UNCHANGED <<h_halted, h_resumed, ticks, monitorIdle>>

MonResume ==
    /\ ResumeOperations
    /\ h_halted' = FALSE
    /\ h_resumed' = FGe(TotalDailyCost, Cost950)
    /\ UNCHANGED <<h_over, costHistory, ticks, monitorIdle>>

MonReset ==
    /\ ResetDailyLimits
    /\ ResetStep
    /\ h_over' = FALSE
    /\ h_resumed' = FALSE
    /\ UNCHANGED <<h_halted, ticks, monitorIdle>>

MonTick ==
    /\ ticks < MaxTicks
    /\ Tick(60)
    /\ ticks' = ticks + 1
    /\ UNCHANGED <<limiterHistory, monitorHistory, costHistory, monitorIdle>>

NextMonitor == MonCheck \/ MonLog \/ MonResume \/ MonReset \/ MonTick

SpecMonitor == Init /\ [][NextMonitor]_vars

\* check_usage_and_alert has just run with the total at 9.50 or more
CheckedAt95 ==
    /\ last.op = "check_usage_and_alert"
    /\ FGe(TotalDailyCost, Cost950)

\* C7: whenever check_usage_and_alert() runs with the total at 95% of
\* total_daily_limit (9.50 of 10.00) or more, the emergency flag is true when
\* it returns and the EMERGENCY_STOP alert is the last one stored; on every
\* such call, also after a resume_operations() with the ledger not reset.
C7_StopsAt95OnEveryCheck ==
    CheckedAt95 =>
        /\ emergency_stop
        /\ alerts # <<>>
        /\ alerts[Len(alerts)].type = "EMERGENCY_STOP"

\* C7 witness: operations were resumed with the total at 9.50, the ledger
\* was not reset, and the check that followed stopped them again.
C7_Witness ==
    /\ CheckedAt95
    /\ TotalDailyCost = Cost950
    /\ h_resumed
    /\ emergency_stop
    /\ Len(alerts) = 3
    /\ alerts[2].type = "EMERGENCY_STOP"
    /\ alerts[3].type = "EMERGENCY_STOP"

(***************************************************************************)
(* SpecWatchdog: the two watchdogs, each asleep between its passes, the    *)
(* one whose sleep ends first running first, and an operator.              *)
(***************************************************************************)
\* the clock's last second
MaxTime == 3000

\* passes of DataCollectionWatchdog that run late
MaxLate == 1

\* restarts by AgentCeliWatchdog
MaxRestarts == 1

\* what count_datasets() finds
Counts == {2, 3}

\* how late a pass of DataCollectionWatchdog runs
Lates == {0, 299}

limiterIdle ==
    <<emergency_stop, daily_costs, hourly_requests, alerts_sent, alerts, last, ticks,
      rateHistory, costHistory, limiterHistory, monitorHistory, auxHistory, lateVars>>

\* History kept along a pass of DataCollectionWatchdog at t that counts `count`
DcwStep(count, t, late) ==
    LET procs == DcwProcesses # {}
        low   == procs /\ count < min_datasets
        shut  == dcw_last'.shutdown # "none"
    IN  /\ h_since' = low_data_start_time
        /\ h_late' = IF late > 0 THEN h_late + 1 ELSE h_late
        /\ h_first_low' = IF ~low THEN None
                          ELSE IF h_first_low = None THEN t ELSE h_first_low
        /\ h_shutdowns' = IF ~low \/ h_first_low = None THEN 0
                          ELSE IF shut THEN h_shutdowns + 1 ELSE h_shutdowns
        /\ h_healthy_at' = IF procs /\ count >= min_datasets /\ low_data_start_time # None
                           THEN t ELSE h_healthy_at
        /\ h_chronic' = (h_chronic \/ (dcw_last'.shutdown = "ok" /\ collector /\ ~collector'))
        /\ h_no_collector' = ~collector

\* What a pass meets when it stops or starts the collector is drawn only
\* for the passes that do so: the script's crash, an answer from a collector
\* that is asked and running, the fate of the processes the fallback kills.
Met(crash, answers, killed) ==
    /\ answers => (~crash /\ collector)
    /\ killed => crash

WdDcw ==
    /\ \E count \in Counts, late \in Lates :
          LET t == Later(now, dcw_wake, late)
          IN  /\ t <= MaxTime
              /\ acw_alive => t <= acw_wake
              /\ late > 0 => h_late < MaxLate
              /\ IF DcwProcesses = {} \/ CheckDataHealth(count, t).ok
                 THEN DcwCycle(count, FALSE, FALSE, FALSE, late)
                 ELSE \E crash \in BOOLEAN, answers \in BOOLEAN, killed \in BOOLEAN :
                         /\ Met(crash, answers, killed)
                         /\ DcwCycle(count, crash, answers, killed, late)
              /\ DcwStep(count, t, late)
    /\ UNCHANGED <<acwHistory, limiterIdle>>

\* History kept along a pass of AgentCeliWatchdog
AcwStep(data_fresh, api_healthy, found) ==
    h_unhealthy' = IF HealthCheck(data_fresh, api_healthy, found)
                   THEN h_unhealthy ELSE h_unhealthy + 1

\* A pass of AgentCeliWatchdog with at most `most` restarts so far
AcwPass(data_fresh, api_healthy, found, most) ==
    IF HealthCheck(data_fresh, api_healthy, found)
    THEN AcwCycle(data_fresh, api_healthy, found, FALSE, FALSE, FALSE, FALSE, FALSE, FALSE, 0)
    ELSE /\ restart_count < most
         /\ \E stop_crash \in BOOLEAN, stop_answers \in BOOLEAN, killed \in BOOLEAN,
               start_crash \in BOOLEAN, start_answers \in BOOLEAN, spawned \in BOOLEAN :
               /\ Met(stop_crash, stop_answers, killed)
               /\ start_answers =>
                     (~start_crash
                      /\ StopAgentceli(stop_crash, stop_answers, killed).collector)
               /\ AcwCycle(data_fresh, api_healthy, found, stop_crash, stop_answers,
                           killed, start_crash, start_answers, spawned, 0)

\* The verdict of health_check() does not depend on the processes found:
\* here the scan finds the collector whenever it runs.
WdAcw ==
    /\ Later(now, acw_wake, 0) <= MaxTime
    /\ Later(now, acw_wake, 0) <= dcw_wake
    /\ \E data_fresh \in BOOLEAN, api_healthy \in BOOLEAN :
          /\ AcwStep(data_fresh, api_healthy, collector)
          /\ AcwPass(data_fresh, api_healthy, collector, MaxRestarts)
    /\ UNCHANGED <<h_first_low, h_shutdowns, h_healthy_at, h_chronic, h_since, h_late,
                   h_no_collector, h_signals, limiterIdle>>

WdOperator ==
    /\ OperatorStart
    /\ h_chronic' = FALSE
    /\ UNCHANGED <<h_first_low, h_shutdowns, h_healthy_at, h_since, h_late, h_no_collector,
                   acwHistory, limiterIdle>>

NextWatchdog == WdDcw \/ WdAcw \/ WdOperator

SpecWatchdog == Init /\ [][NextWatchdog]_vars

\* The last pass of DataCollectionWatchdog called shutdown_agentceli.
ShutdownInvoked == dcw_last.shutdown # "none"

\* What C8 says of the checks up to the first one at or after t0 + 1800
GracePeriodKept ==
    h_first_low # None =>
        /\ ShutdownInvoked => dcw_last.at >= h_first_low + shutdown_threshold
        /\ h_shutdowns = 0 => low_data_start_time = h_first_low
        /\ dcw_last.at >= h_first_low + shutdown_threshold => h_shutdowns >= 1

\* C8 as claimed: while the count stays below 3 from the check at t0 that
\* first finds it so, processes running, no check before t0 + 1800 invokes
\* shutdown_agentceli, low_data_start_time stays t0 until then, the first
\* check at or after t0 + 1800 invokes it, and it is invoked exactly once.
C8_AsClaimed ==
    /\ GracePeriodKept
    /\ h_shutdowns <= 1

\* C8 amended: the same up to the first check at or after t0 + 1800, which
\* invokes shutdown_agentceli.  It is invoked again by the next check when
\* it returned False, low_data_start_time staying as it was; when it
\* returned True the timer is cleared.  Every invocation comes 1800 s or more
\* after the low_data_start_time the check found.
C8_ShutdownAtThresholdAndOnFailureAgain ==
    /\ GracePeriodKept
    /\ dcw_last.shutdown = "failed" => low_data_start_time = h_since
    /\ dcw_last.shutdown = "ok" => low_data_start_time = None
    /\ ShutdownInvoked =>
          (h_since # None /\ dcw_last.at - h_since >= shutdown_threshold)

\* C8 witness: the shortfall was first seen at 0, a check ran at 1799 without
\* shutting down, and the next one, at 2099, is the first to invoke
\* shutdown_agentceli.
C8_Witness ==
    /\ h_first_low = 0
    /\ h_since = 0
    /\ h_late = 1
    /\ dcw_last.at = 2099
    /\ dcw_last.count = 2
    /\ ShutdownInvoked
    /\ h_shutdowns = 1
    /\ collector

\* C9: a check that finds the count at min_datasets or more clears
\* low_data_start_time and invokes no shutdown; the shortfall found after it
\* starts its timer at its own check, so that no shutdown comes within
\* 1800 s of the recovery.
C9_RecoveryClearsTimer ==
    /\ (dcw_last.checked /\ dcw_last.count >= min_datasets) =>
          (low_data_start_time = None /\ ~ShutdownInvoked)
    /\ (dcw_last.checked /\ dcw_last.count < min_datasets /\ h_since = None) =>
          (low_data_start_time = dcw_last.at /\ ~ShutdownInvoked)
    /\ (ShutdownInvoked /\ h_healthy_at # None) =>
          dcw_last.at > h_healthy_at + shutdown_threshold

\* C9 witness: low from 0, recovered at 900, low again from 1200; the
\* checks up to 2700 shut nothing down and the one at 3000 does.
C9_Witness ==
    /\ h_healthy_at = 900
    /\ h_first_low = 1200
    /\ h_since = 1200
    /\ h_shutdowns = 1
    /\ dcw_last.at = 3000
    /\ ShutdownInvoked

\* C30: a pass of DataCollectionWatchdog whose shutdown_agentceli() returned
\* False leaves low_data_start_time as it found it; the pass that follows a
\* failed one, with the collector running and the count below
\* min_datasets, invokes shutdown_agentceli() again; and
\* low_data_start_time changes only in a pass of DataCollectionWatchdog and
\* is cleared only by a pass whose shutdown returned True, or that counted
\* min_datasets or more, or that found no process and so no collector.
C30_Pass ==
    /\ low_data_start_time' # low_data_start_time => dcw_last' # dcw_last
    /\ dcw_last'.shutdown = "failed" =>
          (low_data_start_time # None /\ low_data_start_time' = low_data_start_time)
    /\ (dcw_last' # dcw_last /\ dcw_last.shutdown = "failed" /\ collector
            /\ dcw_last'.count < min_datasets) =>
          (dcw_last'.checked /\ dcw_last'.shutdown # "none")
    /\ (low_data_start_time # None /\ low_data_start_time' = None) =>
          \/ dcw_last'.shutdown = "ok"
          \/ dcw_last'.checked /\ dcw_last'.count >= min_datasets
          \/ ~dcw_last'.checked /\ dcw_last'.processes = 0 /\ ~collector

C30_FailedShutdownKeepsTimer == [][C30_Pass]_vars

\* C30 witness: two passes in a row have invoked shutdown_agentceli() for
\* the same shortfall and both returned False; the timer is still the time
\* of the first low count and the collector still runs.
C30_Witness ==
    /\ h_shutdowns = 2
    /\ dcw_last.shutdown = "failed"
    /\ h_first_low # None
    /\ h_since = h_first_low
    /\ low_data_start_time = h_first_low
    /\ collector

\* C10: once DataCollectionWatchdog has shut the collector down for a
\* shortfall, the collector is not running until an operator starts it.
C10_StaysStoppedUntilOperator == h_chronic => ~collector

\* C11: restart_count is the number of passes of AgentCeliWatchdog whose
\* health_check() returned False: each such pass adds exactly one, whatever
\* the stop and the start met and whether the restart succeeded, and a
\* healthy pass leaves it alone, so it never decreases.
C11_RestartCountedOncePerUnhealthyPass ==
    /\ restart_count = h_unhealthy
    /\ acw_last.restarted => ~acw_last.healthy

\* C11 witness: one unhealthy pass with no process found, whose restart
\* failed, has been counted.
C11_Witness ==
    /\ restart_count = 1
    /\ ~acw_last.healthy
    /\ ~acw_last.restarted
    /\ h_signals.processes = 0
    /\ ~collector

\* C17: a pass of DataCollectionWatchdog that begins with no collector
\* process running only observes: it does not call check_data_health, it
\* leaves low_data_start_time at None and it invokes no shutdown.
C17_OnlyObservesWithoutCollector ==
    h_no_collector =>
        /\ ~dcw_last.checked
        /\ low_data_start_time = None
        /\ ~ShutdownInvoked

(***************************************************************************)
(* SpecHealth: AgentCeliWatchdog alone with the collector, its process     *)
(* scan finding the collector or not, and an operator starting the         *)
(* collector by hand.                                                      *)
(***************************************************************************)
\* restarts by AgentCeliWatchdog
MaxHealthRestarts == 2

HlAcw ==
    /\ Later(now, acw_wake, 0) <= MaxTime
    /\ \E data_fresh \in BOOLEAN, api_healthy \in BOOLEAN, found \in BOOLEAN :
          /\ found => collector
          /\ AcwStep(data_fresh, api_healthy, found)
          /\ h_signals' = Signals(data_fresh, api_healthy, found)
          /\ AcwPass(data_fresh, api_healthy, found, MaxHealthRestarts)
    /\ UNCHANGED <<h_first_low, h_shutdowns, h_healthy_at, h_chronic, h_since, h_late,
                   h_no_collector, limiterIdle>>

NextHealth == HlAcw \/ WdOperator

SpecHealth == Init /\ [][NextHealth]_vars

\* C12 as claimed: a healthy verdict needs at least one collector process
\* found besides the fresh file and the fresh endpoint.
C12_AsClaimed ==
    acw_last.healthy => (h_signals.fresh /\ h_signals.api /\ h_signals.processes >= 1)

\* C12: health_check() returns True exactly when the data file is fresh and
\* the endpoint answers fresh; the processes found do not enter a healthy
\* verdict, and with either signal failing the verdict is False with or
\* without a process.
C12_HealthyIffFreshAndLive ==
    acw_last.healthy <=> (h_signals.fresh /\ h_signals.api)

\* C12 witness: a pass judged healthy whose process scan found nothing.
C12_Witness ==
    /\ acw_last.healthy
    /\ acw_last.at > 0
    /\ h_signals.fresh
    /\ h_signals.api
    /\ h_signals.processes = 0

(***************************************************************************)
(* SpecRestart: AgentCeliWatchdog alone with the collector; every pass     *)
(* records what the two control commands of its restart returned and what  *)
(* restart_agentceli() reported.                                           *)
(***************************************************************************)
\* restarts by AgentCeliWatchdog
MaxRestartTries == 3

\* What restart_agentceli() met and returned in a pass that restarts
Restart(stop_crash, stop_answers, killed, start_crash, start_answers, spawned) ==
    LET stop  == StopAgentceli(stop_crash, stop_answers, killed)
        start == StartAgentceli(stop.collector, stop.pid_ok, start_crash, start_answers,
                                spawned)
    IN  [tried |-> TRUE,
         stop_rc |-> ControlStop(stop_crash, stop_answers).rc,
         stop_via |-> stop.via,
         start_rc |-> ControlStart(stop.collector, stop.pid_ok, start_crash, start_answers,
                                   spawned).rc,
         start_via |-> start.via,
         spawned |-> spawned,
         reported |-> start.ok,
         after_failed |-> (h_restart.tried /\ ~h_restart.reported)]

restartIdle ==
    <<emergency_stop, daily_costs, hourly_requests, alerts_sent, alerts, last, ticks,
      rateHistory, costHistory, limiterHistory, monitorHistory, auxHistory, h_first_low,
      h_shutdowns, h_healthy_at, h_chronic, h_since, h_late, h_no_collector, loops, sig,
      lock, th, burst>>

RsAcw ==
    /\ Later(now, acw_wake, 0) <= MaxTime
    /\ \E data_fresh \in BOOLEAN, api_healthy \in BOOLEAN, found \in BOOLEAN :
          /\ found => collector
          /\ AcwStep(data_fresh, api_healthy, found)
          /\ h_signals' = Signals(data_fresh, api_healthy, found)
          /\ IF HealthCheck(data_fresh, api_healthy, found)
             THEN /\ AcwCycle(data_fresh, api_healthy, found, FALSE, FALSE, FALSE, FALSE,
                              FALSE, FALSE, 0)
                  /\ h_restart' = NoRestart
             ELSE /\ restart_count < MaxRestartTries
                  /\ \E stop_crash \in BOOLEAN, stop_answers \in BOOLEAN, killed \in BOOLEAN,
                        start_crash \in BOOLEAN, start_answers \in BOOLEAN,
                        spawned \in BOOLEAN :
                        /\ Met(stop_crash, stop_answers, killed)
                        /\ start_answers =>
                              (~start_crash
                               /\ StopAgentceli(stop_crash, stop_answers, killed).collector)
                        /\ AcwCycle(data_fresh, api_healthy, found, stop_crash,
                                    stop_answers, killed, start_crash, start_answers,
                                    spawned, 0)
                        /\ h_restart' = Restart(stop_crash, stop_answers, killed,
                                                start_crash, start_answers, spawned)
    /\ UNCHANGED restartIdle

RsOperator ==
    /\ OperatorStart
    /\ UNCHANGED <<restartIdle, acwHistory, h_restart>>

NextRestart == RsAcw \/ RsOperator

SpecRestart == Init /\ [][NextRestart]_vars

\* C25: every pass whose health_check() returned False runs
\* restart_agentceli(), also the pass after a restart that failed.  In a
\* restart the direct stop (terminate, then kill) is used exactly when the
\* control command's stop did not exit 0, and the bare spawn of
\* agentceli_hybrid.py exactly when the control command's start did not
\* exit 0; the restart is reported failed exactly when the control start
\* failed and the spawned process did not stay up, whatever the stop did.
C25_ControlFirstThenDirect ==
    /\ h_restart.tried <=> (~acw_last.healthy /\ acw_last.at = now /\ restart_count > 0)
    /\ h_restart.tried =>
          /\ h_restart.stop_via = (IF h_restart.stop_rc = 0 THEN "control" ELSE "direct")
          /\ h_restart.start_via = (IF h_restart.start_rc = 0 THEN "control" ELSE "direct")
          /\ h_restart.reported <=> (h_restart.start_rc = 0 \/ h_restart.spawned)
          /\ acw_last.restarted = h_restart.reported
          /\ acw_last.stop = h_restart.stop_via
          /\ acw_last.start = h_restart.start_via

\* C25 witness: the pass after a failed restart finds the system unhealthy
\* again and restarts again; both control commands fail, the processes are
\* killed and agentceli_hybrid.py is spawned directly, and the restart is
\* reported done.
C25_Witness ==
    /\ h_restart.tried
    /\ h_restart.after_failed
    /\ h_restart.stop_rc # 0
    /\ h_restart.start_rc # 0
    /\ h_restart.stop_via = "direct"
    /\ h_restart.start_via = "direct"
    /\ h_restart.reported
    /\ restart_count = 2

(***************************************************************************)
(* SpecLoops: the three monitoring loops as loops.  An iteration is the    *)
(* body of the inner try: it ends in the sleep of the interval, or an      *)
(* Exception raised in it is caught by `except Exception`, reported, and   *)
(* followed by time.sleep(60).  KeyboardInterrupt ends a loop.             *)
(***************************************************************************)
\* time.sleep(...) at the end of an iteration of each loop
Interval(l) ==
    IF l = "monitor" THEN monitor_interval
    ELSE IF l = "acw" THEN acw_check_interval
    ELSE check_interval

\* An iteration whose Exception leaves the loop
Iteration_ErrorEnds(l, raises) ==
    IF raises
    THEN [pc |-> "dead", wait |-> 0, error |-> FALSE, par |-> 1 - loops[l].par]
    ELSE [pc |-> "sleep", wait |-> Interval(l), error |-> FALSE, par |-> 1 - loops[l].par]

\* One iteration of loop l: the body of the try and the handler it ends in
Iteration(l, raises) ==
    IF raises
    THEN [pc |-> "backoff", wait |-> backoff, error |-> TRUE, par |-> 1 - loops[l].par]
    ELSE [pc |-> "sleep", wait |-> Interval(l), error |-> FALSE, par |-> 1 - loops[l].par]

loopsIdle ==
    <<now, emergency_stop, daily_costs, hourly_requests, alerts_sent, alerts, last,
      watchdogVars, ticks, rateHistory, costHistory, limiterHistory, monitorHistory,
      watchdogHistory, auxHistory, h_restart, sig, lock, th, burst>>

LoopCheck(l) ==
    /\ loops[l].pc = "check"
    /\ \E raises \in BOOLEAN : loops' = [loops EXCEPT ![l] = Iteration(l, raises)]
    /\ UNCHANGED loopsIdle

\* time.sleep() returns and `while True` goes round
LoopWake(l) ==
    /\ loops[l].pc \in {"sleep", "backoff"}
    /\ loops' = [loops EXCEPT ![l].pc = "check"]
    /\ UNCHANGED loopsIdle

\* KeyboardInterrupt: a stop is requested
LoopStop(l) ==
    /\ loops[l].pc \in {"check", "sleep", "backoff"}
    /\ loops' = [loops EXCEPT ![l].pc = "stopped"]
    /\ UNCHANGED loopsIdle

NextLoops == \E l \in Loops : LoopCheck(l) \/ LoopWake(l) \/ LoopStop(l)

\* A loop that is not stopped goes on running: its sleep ends and its next
\* iteration is executed.
LoopsFairness == \A l \in Loops : WF_vars(LoopCheck(l)) /\ WF_vars(LoopWake(l))

SpecLoops == Init /\ [][NextLoops]_vars /\ LoopsFairness

Stopped(l) == loops[l].pc = "stopped"

\* The loop is where the code puts it: in an iteration, in the sleep of its
\* interval, in the sleep of 60 s after a reported error, or stopped on
\* request
LoopOn(l) ==
    /\ loops[l].pc \in {"check", "sleep", "backoff", "stopped"}
    /\ loops[l].pc = "backoff" => (loops[l].error /\ loops[l].wait = backoff)
    /\ loops[l].pc = "sleep" => (~loops[l].error /\ loops[l].wait = Interval(l))
    /\ (loops[l].pc = "check" /\ loops[l].error) => loops[l].wait = backoff

\* Unless stopped, the loop runs one more iteration, again and again
ChecksAgain(l) ==
    /\ []<>(Stopped(l) \/ loops[l].par = 0)
    /\ []<>(Stopped(l) \/ loops[l].par = 1)
    /\ (loops[l].pc = "backoff") ~> (Stopped(l) \/ loops[l].pc = "check")

\* C27: in each of the three loops an Exception raised in an iteration is
\* caught and reported, the loop sleeps 60 s and runs its next iteration; no
\* such error ends the loop, and unless a stop is requested another
\* iteration is always eventually run.
C27_LoopsSurviveErrors ==
    /\ [](LoopOn("monitor") /\ LoopOn("acw") /\ LoopOn("dcw"))
    /\ ChecksAgain("monitor")
    /\ ChecksAgain("acw")
    /\ ChecksAgain("dcw")

\* C27 witness: each of the three loops has had an iteration end in an
\* error, has slept its 60 s and is in the iteration after it.
C27_Witness ==
    \A l \in Loops :
        /\ loops[l].pc = "check"
        /\ loops[l].error
        /\ loops[l].wait = backoff
        /\ loops[l].par = 1

(***************************************************************************)
(* SpecSignal: the two watchdogs run as scripts, with SIGINT.  Under       *)
(* __main__ each installs signal_handler for SIGINT, which calls           *)
(* sys.exit(0): SystemExit is raised where the main thread is, and neither *)
(* `except KeyboardInterrupt` nor `except Exception` of run() catches it.  *)
(* A restart is two steps here, stop_agentceli() and start_agentceli().    *)
(***************************************************************************)
\* restarts by AgentCeliWatchdog
MaxSignalRestarts == 2

signalIdle ==
    <<now, emergency_stop, daily_costs, hourly_requests, alerts_sent, alerts, last,
      low_data_start_time, last_dataset_count, dcw_wake, acw_wake, dcw_last, acw_last,
      ticks, rateHistory, costHistory, limiterHistory, monitorHistory, watchdogHistory,
      auxHistory, h_restart, loops, lock, th, burst>>

\* signal_handler(sig, frame): sys.exit(0) where run() is; the line after
\* the outer try, which logs that the watchdog stopped, is not reached
SignalHandler(w) == [pc |-> "exited", at |-> sig[w].pc, logged |-> FALSE]

Alive(w) == IF w = "acw" THEN acw_alive ELSE TRUE

\* The top of an iteration of AgentCeliWatchdog: health_check()
SgAcwCheck ==
    /\ acw_alive
    /\ sig["acw"].pc = "check"
    /\ \E healthy \in BOOLEAN :
          IF healthy
          THEN /\ sig' = [sig EXCEPT !["acw"].pc = "sleep"]
               /\ UNCHANGED restart_count
          ELSE /\ restart_count < MaxSignalRestarts
               /\ restart_count' = restart_count + 1
               /\ sig' = [sig EXCEPT !["acw"].pc = "stop"]
    /\ UNCHANGED <<collector, pid_ok, acw_alive, signalIdle>>

\* restart_agentceli(): stop_agentceli() runs to its end
SgStop ==
    /\ acw_alive
    /\ sig["acw"].pc = "stop"
    /\ \E crash \in BOOLEAN, answers \in BOOLEAN, killed \in BOOLEAN :
          LET stop == StopAgentceli(crash, answers, killed)
          IN  /\ Met(crash, answers, killed)
              /\ collector' = stop.collector
              /\ pid_ok' = stop.pid_ok
    /\ sig' = [sig EXCEPT !["acw"].pc = "start"]
    /\ UNCHANGED <<restart_count, acw_alive, signalIdle>>

\* restart_agentceli(): start_agentceli() runs to its end
SgStart ==
    /\ acw_alive
    /\ sig["acw"].pc = "start"
    /\ \E crash \in BOOLEAN, answers \in BOOLEAN, spawned \in BOOLEAN :
          LET start == StartAgentceli(collector, pid_ok, crash, answers, spawned)
          IN  /\ answers => (~crash /\ collector)
              /\ collector' = start.collector
              /\ pid_ok' = start.pid_ok
    /\ sig' = [sig EXCEPT !["acw"].pc = "sleep"]
    /\ UNCHANGED <<restart_count, acw_alive, signalIdle>>

\* The top of an iteration of DataCollectionWatchdog: check_data_health()
SgDcwCheck ==
    /\ sig["dcw"].pc = "check"
    /\ \E ok \in BOOLEAN :
          sig' = [sig EXCEPT !["dcw"].pc = IF ok \/ DcwProcesses = {} THEN "sleep"
                                           ELSE "shutdown"]
    /\ UNCHANGED <<collector, pid_ok, acw_alive, restart_count, signalIdle>>

\* shutdown_agentceli() runs to its end
SgShutdown ==
    /\ sig["dcw"].pc = "shutdown"
    /\ \E crash \in BOOLEAN, answers \in BOOLEAN, killed \in BOOLEAN :
          LET down == ShutdownAgentceli(crash, answers, killed)
          IN  /\ Met(crash, answers, killed)
              /\ collector' = down.collector
              /\ pid_ok' = down.pid_ok
              /\ acw_alive' = down.acw_alive
    /\ sig' = [sig EXCEPT !["dcw"].pc = "sleep"]
    /\ UNCHANGED <<restart_count, signalIdle>>

\* time.sleep(check_interval) returns
SgWake(w) ==
    /\ Alive(w)
    /\ sig[w].pc = "sleep"
    /\ sig' = [sig EXCEPT ![w].pc = "check"]
    /\ UNCHANGED <<collector, pid_ok, acw_alive, restart_count, signalIdle>>

\* SIGINT is delivered to the process of watchdog w
SgSignal(w) ==
    /\ Alive(w)
    /\ sig[w].pc # "exited"
    /\ sig' = [sig EXCEPT ![w] = SignalHandler(w)]
    /\ UNCHANGED <<collector, pid_ok, acw_alive, restart_count, signalIdle>>

NextSignal ==
    \/ SgAcwCheck
    \/ SgStop
    \/ SgStart
    \/ SgDcwCheck
    \/ SgShutdown
    \/ \E w \in Watchdogs : SgWake(w) \/ SgSignal(w)

SpecSignal == Init /\ [][NextSignal]_vars

\* C26: a watchdog that has exited on SIGINT was not cut off inside a
\* restart or a shutdown (it left from the top of an iteration, a stop
\* having been followed by its start) and it logged that it stopped.
C26_SignalFinishesInFlight ==
    \A w \in Watchdogs :
        sig[w].pc = "exited" => (sig[w].at = "check" /\ sig[w].logged)

(***************************************************************************)
(* SpecThreads: two threads call functions wrapped by check_api_rate_limit *)
(* on the one rate_limiter of the module, while emergency_stop_all and     *)
(* resume_operations are called from elsewhere.  `with self.lock` is an    *)
(* acquire and a release; can_make_request reads the flag first and then   *)
(* only what the lock protects, so its body is one step after the acquire. *)
(***************************************************************************)
\* wrapped calls that get to log_request
MaxWrapped == 13

ThreadApis == {"santiment"}

ThreadCosts == {FZero, Cost050}

\* The wrapper's flow for a verdict and a function that raises or returns:
\* whether func is invoked, whether log_request is called, its success
Wrapper_LogsOnlySuccess(allowed, raises) ==
    [invoke |-> allowed, log |-> allowed /\ ~raises, success |-> allowed /\ ~raises]

Wrapper(allowed, raises) ==
    [invoke |-> allowed, log |-> allowed, success |-> allowed /\ ~raises]

threadsIdle ==
    <<watchdogVars, ticks, rateHistory, costHistory, limiterHistory, monitorHistory,
      watchdogHistory, auxHistory, h_restart, loops, sig, burst>>

\* wrapped calls that have logged or are under way
InFlight == Cardinality({t \in Threads : th[t].pc # "idle"})

Wrapped == Requests(hourly_requests, "santiment", CurrentMinute(now)) + InFlight

\* wrapper(*args, **kwargs) is entered
ThEnter(t) ==
    /\ th[t].pc = "idle"
    /\ Wrapped < MaxWrapped
    /\ \E api \in ThreadApis, cost \in ThreadCosts :
          th' = [th EXCEPT ![t] = [NoCall EXCEPT !.pc = "enter", !.api = api, !.cost = cost]]
    /\ UNCHANGED <<now, limiterVars, monitorVars, last, lock, threadsIdle>>

\* `with self.lock:` of can_make_request or of log_request is entered
ThAcquire(t) ==
    /\ th[t].pc \in {"enter", "record"}
    /\ lock = Free
    /\ lock' = t
    /\ th' = [th EXCEPT ![t].pc = IF th[t].pc = "enter" THEN "check" ELSE "log"]
    /\ UNCHANGED <<now, limiterVars, monitorVars, last, threadsIdle>>

\* th after thread t's can_make_request and what the wrapper does with it
Checked(t) ==
    LET go == Wrapper(CanMakeRequest(th[t].api, th[t].cost).allowed, FALSE)
    IN  [th EXCEPT ![t].pc = IF go.invoke THEN "call" ELSE "idle",
                   ![t].result = IF go.invoke THEN "none" ELSE "rejected",
                   ![t].touched = (<<daily_costs, hourly_requests>>'
                                      # <<daily_costs, hourly_requests>>)]

\* th after thread t's func(*args, **kwargs) returned or raised an Exception
Returned(t, raises) ==
    LET go == Wrapper(TRUE, raises)
    IN  [th EXCEPT ![t].pc = IF go.log THEN "record" ELSE "idle",
                   ![t].invoked = @ + 1,
                   ![t].success = go.success,
                   ![t].result = IF raises THEN "raised" ELSE "returned"]

\* th after thread t's log_request
Recorded(t) ==
    [th EXCEPT
        ![t].pc = "idle",
        ![t].logs = @ + 1,
        ![t].counted = Requests(hourly_requests', th[t].api, CurrentMinute(now))
                          - Requests(hourly_requests, th[t].api, CurrentMinute(now)),
        ![t].grew = (daily_costs'[th[t].api] # daily_costs[th[t].api]),
        ![t].exact = (daily_costs'[th[t].api] = FAdd(daily_costs[th[t].api], th[t].cost))]

\* can_make_request under the lock
ThCheck(t) ==
    /\ th[t].pc = "check"
    /\ lock = t
    /\ CanMakeRequestCall(th[t].api, th[t].cost)
    /\ lock' = Free
    /\ th' = Checked(t)
    /\ UNCHANGED threadsIdle

ThFunc(t) ==
    /\ th[t].pc = "call"
    /\ \E raises \in BOOLEAN : th' = Returned(t, raises)
    /\ UNCHANGED <<now, limiterVars, monitorVars, last, lock, threadsIdle>>

\* log_request under the lock
ThLog(t) ==
    /\ th[t].pc = "log"
    /\ lock = t
    /\ LogRequest(th[t].api, th[t].cost, th[t].success)
    /\ lock' = Free
    /\ th' = Recorded(t)
    /\ UNCHANGED threadsIdle

\* emergency_stop_all() and resume_operations(): no `with self.lock`
ThStop ==
    /\ EmergencyStopAll
    /\ UNCHANGED <<lock, th, threadsIdle>>

ThResume ==
    /\ ResumeOperations
    /\ UNCHANGED <<lock, th, threadsIdle>>

NextThreads ==
    \/ \E t \in Threads : ThEnter(t) \/ ThAcquire(t) \/ ThCheck(t) \/ ThFunc(t) \/ ThLog(t)
    \/ ThStop
    \/ ThResume

SpecThreads == Init /\ [][NextThreads]_vars

\* A step that changes the ledger or a minute counter is taken by the
\* thread that holds the lock; a step that changes the emergency flag is
\* taken while nobody else holds the lock.
SerializedStep ==
    /\ <<daily_costs, hourly_requests>>' # <<daily_costs, hourly_requests>> =>
          (lock \in Threads /\ th[lock].pc = "log" /\ lock' = Free)
    /\ emergency_stop' # emergency_stop => lock = Free

\* C21: every mutation of the ledger, of the minute counters and of the
\* emergency flag is made under the limiter's lock, the flag writes of
\* emergency_stop_all and resume_operations included, so that none falls
\* inside the locked section of another operation.
C21_AllUnderTheLock == [][SerializedStep]_vars

\* C22: can_make_request and log_request take the lock separately, so
\* the callers of one source can all pass the check before any of them
\* records.  Every request recorded was allowed by its own check, and still
\* the counter of the minute can pass the rpm limit and the ledger the
\* source's cap, by what the callers beyond the first record: with two
\* threads by one request and by one cost.
C22_OvershootByConcurrentCallers ==
    /\ \A t \in Threads :
          (th[t].logs > 0 \/ th[t].pc \in {"call", "record", "log"}) =>
              (th[t].result # "rejected" /\ last.op # "__init__")
    /\ Requests(hourly_requests, "santiment", CurrentMinute(now))
          <= santiment_rpm + (Cardinality(Threads) - 1)
    /\ FLe(daily_costs["santiment"],
           FAdd(rate_limits["santiment"].daily_cost_limit, Cost050))

\* C22 witness: both threads were allowed and have recorded; the counter
\* of the minute is above the rpm limit and the ledger above the cap.
C22_Witness ==
    /\ \A t \in Threads : th[t].pc = "idle" /\ th[t].logs = 1 /\ th[t].result = "returned"
    /\ Requests(hourly_requests, "santiment", CurrentMinute(now)) > santiment_rpm
    /\ FGt(daily_costs["santiment"], rate_limits["santiment"].daily_cost_limit)

\* What a finished call of the wrapper has done
WrappedOnce(t) ==
    /\ th[t].invoked <= 1
    /\ th[t].logs <= th[t].invoked
    /\ th[t].result = "rejected" =>
          (th[t].pc = "idle" /\ th[t].invoked = 0 /\ th[t].logs = 0 /\ ~th[t].touched)
    /\ (th[t].pc = "idle" /\ th[t].result \in {"returned", "raised"}) =>
          /\ th[t].invoked = 1
          /\ th[t].logs = 1
          /\ th[t].counted = 1
          /\ th[t].result = "returned" => th[t].exact
          /\ th[t].result = "raised" => ~th[t].grew

\* C28: a wrapped call that can_make_request rejects does not invoke the
\* function and records nothing, counters and ledger staying as they were;
\* one that it allows invokes the function once and calls log_request once,
\* which adds one to the source's counter of the minute whether the function
\* returned or raised, and adds the cost to the ledger only when it returned.
C28_WrapperRecordsEveryAllowedCall == \A t \in Threads : WrappedOnce(t)

\* C28 witness: thread 1's function raised at a cost of 0.50 and its call
\* was counted without cost; thread 2's call was rejected.
C28_Witness ==
    /\ th[1].pc = "idle"
    /\ th[1].result = "raised"
    /\ th[1].cost = Cost050
    /\ th[1].counted = 1
    /\ ~th[1].grew
    /\ th[2].pc = "idle"
    /\ th[2].result = "rejected"

(***************************************************************************)
(* SpecSeq: one thread calls wrapped functions one at a time, each check   *)
(* followed by its own record with the same cost before the next check,    *)
(* while time passes.  Nobody else takes the lock, so `with self.lock` and *)
(* its body are one step.                                                  *)
(***************************************************************************)
\* wrapped calls that get to log_request in one minute, and advances of time
MaxSeqCalls == 12

MaxSeqTicks == 2

SeqAdvances == {1, 59}

seqIdle ==
    <<watchdogVars, rateHistory, costHistory, limiterHistory, monitorHistory,
      watchdogHistory, auxHistory, h_restart, loops, sig, lock>>

\* The allowed checks of the last 60 s, counted from the first of them
Burst(allowed) ==
    IF ~allowed THEN burst
    ELSE IF burst.since = None \/ now - burst.since >= 60
    THEN [since |-> now, n |-> 1]
    ELSE [burst EXCEPT !.n = @ + 1]

SqEnter ==
    /\ th[1].pc = "idle"
    /\ Wrapped < MaxSeqCalls
    /\ \E api \in ThreadApis, cost \in ThreadCosts :
          th' = [th EXCEPT ![1] = [NoCall EXCEPT !.pc = "enter", !.api = api, !.cost = cost]]
    /\ UNCHANGED <<now, limiterVars, monitorVars, last, ticks, burst, seqIdle>>

SqCheck ==
    /\ th[1].pc = "enter"
    /\ CanMakeRequestCall(th[1].api, th[1].cost)
    /\ th' = Checked(1)
    /\ burst' = Burst(CanMakeRequest(th[1].api, th[1].cost).allowed)
    /\ UNCHANGED <<ticks, seqIdle>>

SqFunc ==
    /\ th[1].pc = "call"
    /\ \E raises \in BOOLEAN : th' = Returned(1, raises)
    /\ UNCHANGED <<now, limiterVars, monitorVars, last, ticks, burst, seqIdle>>

SqLog ==
    /\ th[1].pc = "record"
    /\ LogRequest(th[1].api, th[1].cost, th[1].success)
    /\ th' = Recorded(1)
    /\ UNCHANGED <<ticks, burst, seqIdle>>

\* Time passes, between two calls or while the function runs
SqTick ==
    /\ ticks < MaxSeqTicks
    /\ \E d \in SeqAdvances : Tick(d)
    /\ ticks' = ticks + 1
    /\ UNCHANGED <<th, burst, seqIdle>>

NextSeq == SqEnter \/ SqCheck \/ SqFunc \/ SqLog \/ SqTick

SpecSeq == Init /\ [][NextSeq]_vars

\* No minute bucket of a source of rate_limits counts more than its rpm
BucketsWithinRpm ==
    \A api \in KnownApis : \A minute \in DOMAIN hourly_requests[api] :
        hourly_requests[api][minute] <= rate_limits[api].rpm

\* C23: in a sequential run of check-then-record calls no minute bucket
\* ever counts more than N = rpm, and the checks allowed within a span
\* shorter than 60 s are at most 2N; 2N is reached, N at the end of one
\* bucket and N at the start of the next.
C23_BoundaryBurstOfTwiceRpm ==
    /\ BucketsWithinRpm
    /\ burst.n <= 2 * santiment_rpm
    /\ burst.since # None => (burst.since <= now /\ burst.n >= 1)

\* C23 witness: 20 checks for the source with rpm = 10 were allowed and
\* recorded within one second, ten in the bucket that ends at 60 and ten in
\* the next.
C23_Witness ==
    /\ burst.n = 2 * santiment_rpm
    /\ now - burst.since < 60
    /\ th[1].pc = "idle"
    /\ Requests(hourly_requests, "santiment", CurrentMinute(now)) = santiment_rpm
    /\ Requests(hourly_requests, "santiment", CurrentMinute(now) - 1) = santiment_rpm

\* C24: when the wrapped calls are made one at a time, each check followed
\* by its own record with the same cost, the ledger of a source of
\* rate_limits never exceeds the source's daily cap and no minute bucket
\* counts more than its rpm.
C24_SequentialStaysWithinLimits ==
    /\ \A api \in KnownApis : FLe(daily_costs[api], rate_limits[api].daily_cost_limit)
    /\ \A api \in KnownApis : \A minute \in DOMAIN hourly_requests[api] :
          Requests(hourly_requests, api, minute) <= rate_limits[api].rpm

\* C24 witness: the ledger stands at the cap after two recorded calls at
\* 0.50, the bucket of the minute before is full, and the call just made
\* at 0.50 was rejected for the cap.
C24_Witness ==
    /\ daily_costs["santiment"] = rate_limits["santiment"].daily_cost_limit
    /\ Requests(hourly_requests, "santiment", CurrentMinute(now) - 1) = santiment_rpm
    /\ th[1].pc = "idle"
    /\ th[1].result = "rejected"
    /\ th[1].cost = Cost050
    /\ last.reason = "Daily cost limit for api"

(***************************************************************************)
(* SpecDays: the limiter and the monitor over several days: checks,        *)
(* logged calls, resets and cleanups, with the clock advanced by a minute  *)
(* or by a day between them.                                               *)
(***************************************************************************)
\* advances of the clock
MaxDayTicks == 2

\* log_request calls
MaxDayLogs == 2

\* alerts in the file before a check
MaxDayAlerts == 2

DayAdvances == {60, minutes_per_day * 60}

dayIdle ==
    <<watchdogVars, rateHistory, costHistory, limiterHistory, monitorHistory, watchdogHistory,
      status_call, ctl_call, built, h_all, lateVars>>

\* The alerts of one type and subject among those a check appended
Emitted(before, after, type, about) ==
    Cardinality({i \in Len(before) + 1 .. Len(after) :
                    after[i].type = type /\ after[i].about = about})

\* The alerts of one kind emitted in the period `at`, given the count so far
Counted(so_far, period, at, n) ==
    IF n = 0 THEN so_far
    ELSE IF so_far[period] = at THEN [so_far EXCEPT !.n = @ + n]
    ELSE [so_far EXCEPT ![period] = at, !.n = n]

DayCheck ==
    /\ Len(alerts) < MaxDayAlerts
    /\ CheckUsageAndAlert
    /\ h_days' =
          [h_days EXCEPT
             !.high = Counted(@, "day", Day(now),
                              Emitted(alerts, alerts', "HIGH_USAGE", "")),
             !.crit = Counted(@, "minute", CurrentMinute(now),
                              Emitted(alerts, alerts', "API_CRITICAL", "santiment"))]
    /\ UNCHANGED <<ticks, dayIdle>>

DayLog ==
    /\ h_days.logs < MaxDayLogs
    /\ \E in \in MonitorInputs : LogRequest(in[1], in[2], TRUE)
    /\ h_days' = [h_days EXCEPT !.logged = Day(now), !.logs = @ + 1]
    /\ UNCHANGED <<ticks, dayIdle>>

DayAsk ==
    /\ \E api \in Apis : CanMakeRequestCall(api, Cost050)
    /\ UNCHANGED <<ticks, h_days, dayIdle>>

DayReset == ResetDailyLimits /\ UNCHANGED <<ticks, h_days, dayIdle>>

DayCleanup == CleanupOldData /\ UNCHANGED <<ticks, h_days, dayIdle>>

DayTick ==
    /\ ticks < MaxDayTicks
    /\ \E d \in DayAdvances : Tick(d)
    /\ ticks' = ticks + 1
    /\ UNCHANGED <<h_days, dayIdle>>

NextDays == DayCheck \/ DayLog \/ DayAsk \/ DayReset \/ DayCleanup \/ DayTick

SpecDays == Init /\ [][NextDays]_vars

\* check_usage_and_alert has just run with the total at 8.00 or more
CheckedAt80 ==
    /\ last.op = "check_usage_and_alert"
    /\ UsagePercentageGe(80)

\* C13: after a check that finds the total at 80% or more, one HIGH_USAGE
\* alert has been emitted on the day of the check, by it or by an earlier
\* check of that day, and no second one.
C13_OneHighUsagePerDay ==
    CheckedAt80 => (h_days.high.day = Day(now) /\ h_days.high.n = 1)

\* check_usage_and_alert has just run with santiment CRITICAL
CheckedCritical ==
    /\ last.op = "check_usage_and_alert"
    /\ ApiStatus("santiment") = "CRITICAL"

\* C14: after a check that finds a source CRITICAL, one API_CRITICAL alert
\* for it has been emitted in the minute of the check, by it or by an
\* earlier check of that minute, and no second one; the minute of another
\* day with the same time of day is another minute.
C14_OneCriticalPerSourcePerMinute ==
    CheckedCritical => (h_days.crit.minute = CurrentMinute(now) /\ h_days.crit.n = 1)

\* C16: a step that is not reset_daily_limits() lowers no entry of
\* daily_costs, and a step that is neither that nor log_request() leaves
\* daily_costs as it was: no other operation and no advance of the clock,
\* by a minute or into another day, changes the ledger.
C16_LedgerKeptUntilReset ==
    [][/\ last'.op # "reset_daily_limits" =>
             \A a \in Apis : FGe(daily_costs'[a], daily_costs[a])
       /\ last'.op \notin {"reset_daily_limits", "log_request"} =>
             daily_costs' = daily_costs]_vars

\* C16 witness: 1.00 was logged for santiment on day 0 and nothing since;
\* on day 1 a paid call is refused for the source's daily cap.
C16_Witness ==
    /\ Day(now) = 1
    /\ h_days.logged = 0
    /\ daily_costs["santiment"] = F100
    /\ last.op = "can_make_request"
    /\ last.api = "santiment"
    /\ ~last.allowed
    /\ last.reason = "Daily cost limit for api"

(***************************************************************************)
(* SpecStatus: _get_api_status applied to the request counts, ledger       *)
(* entries and limits that get_status() can pass it.                       *)
(***************************************************************************)
\* "coingecko": {"rpm": 50, "daily_cost_limit": 0.0}
coingecko_rpm == 50

\* santiment, a paid source, and coingecko, a free one
StatusLimits ==
    {[rpm |-> santiment_rpm, daily_cost_limit |-> F100],
     [rpm |-> coingecko_rpm, daily_cost_limit |-> FZero]}

\* requests of the current minute, around 70% and 90% of either rpm
StatusRequests == {0, 6, 7, 8, 9, 10, 34, 35, 44, 45, 50}

\* the doubles next below 0.7 and 0.9, and 0.7, 0.9 and 1.5
Below070 == <<45875, 419430, 838816>>

Cost070 == <<45875, 419430, 838848>>

Below090 == <<58982, 838860, 1677696>>

Cost090 == <<58982, 838860, 1677728>>

Cost150 == <<98304, 0, 0>>

StatusCosts == {FZero, Cost050, Below070, Cost070, Below090, Cost090, F100, Cost150}

statusIdle ==
    <<now, emergency_stop, daily_costs, hourly_requests, alerts_sent, alerts, last,
      watchdogVars, ticks, rateHistory, costHistory, limiterHistory, monitorHistory,
      watchdogHistory, h_days, ctl_call, built, h_all, lateVars>>

GetApiStatusCall ==
    /\ \E minute_requests \in StatusRequests, daily_cost \in StatusCosts,
          limits \in StatusLimits :
          status_call' = StatusCall(minute_requests, daily_cost, limits)
    /\ UNCHANGED statusIdle

NextStatus == GetApiStatusCall

SpecStatus == Init /\ [][NextStatus]_vars

\* C15: the status returned is CRITICAL exactly when the rpm usage or the
\* daily-cost usage, as percentages computed in doubles, is at least 90,
\* WARNING exactly when neither is but one is at least 70, and OK exactly
\* when neither is at least 70; with a daily cost cap of 0 the cost usage
\* counts as 0 and the rpm usage alone decides.
C15_StatusByThresholds ==
    LET c      == status_call
        paid   == FGt(c.limits.daily_cost_limit, FZero)
        pct    == FMul100(c.daily_cost)
        rpm(p) == c.minute_requests * 100 >= p * c.limits.rpm
        hi     == rpm(90) \/ (paid /\ FGe(pct, F90))
        mid    == rpm(70) \/ (paid /\ FGe(pct, F70))
    IN  c.called =>
           /\ c.status = "CRITICAL" <=> hi
           /\ c.status = "WARNING" <=> (~hi /\ mid)
           /\ c.status = "OK" <=> ~mid
           /\ ~paid => /\ c.status = "CRITICAL" <=> rpm(90)
                       /\ c.status = "WARNING" <=> (~rpm(90) /\ rpm(70))

\* C15 witness: a free source with 1.50 in its ledger and 35 of 50 requests
\* in the minute is WARNING, on its rpm usage of 70%.
C15_Witness ==
    /\ status_call.called
    /\ status_call.limits.daily_cost_limit = FZero
    /\ status_call.daily_cost = Cost150
    /\ status_call.minute_requests = 35
    /\ status_call.status = "WARNING"

(***************************************************************************)
(* SpecControl: `agentceli_control.py stop` and `agentceli_control.py      *)
(* start` run as commands, by a watchdog or by hand, against a collector   *)
(* that runs or not, with or without its pid file.                         *)
(***************************************************************************)
\* runs of the command
MaxCommands == 6

controlIdle ==
    <<now, emergency_stop, daily_costs, hourly_requests, alerts_sent, alerts, last,
      acw_alive, low_data_start_time, last_dataset_count, restart_count, dcw_wake,
      acw_wake, dcw_last, acw_last, ticks, rateHistory, costHistory, limiterHistory,
      monitorHistory, watchdogHistory, h_days, status_call, built, h_all, lateVars>>

RunStop ==
    /\ ctl_call.runs < MaxCommands
    /\ \E crash \in BOOLEAN, answers \in BOOLEAN :
          LET ctl == ControlStop(crash, answers)
          IN  /\ answers => collector
              /\ collector' = ctl.collector
              /\ pid_ok' = ctl.pid_ok
              /\ ctl_call' = [cmd |-> "stop", rc |-> ctl.rc, was |-> collector,
                              answered |-> answers, runs |-> ctl_call.runs + 1]
    /\ UNCHANGED controlIdle

RunStart ==
    /\ ctl_call.runs < MaxCommands
    /\ \E crash \in BOOLEAN, answers \in BOOLEAN, spawned \in BOOLEAN :
          LET ctl == ControlStart(collector, pid_ok, crash, answers, spawned)
          IN  /\ answers => collector
              /\ collector' = ctl.collector
              /\ pid_ok' = ctl.pid_ok
              /\ ctl_call' = [cmd |-> "start", rc |-> ctl.rc, was |-> collector,
                              answered |-> answers, runs |-> ctl_call.runs + 1]
    /\ UNCHANGED controlIdle

NextControl == RunStop \/ RunStart

SpecControl == Init /\ [][NextControl]_vars

\* C18: after `agentceli_control.py stop` has exited with code 0 the
\* collector is not running, and after `agentceli_control.py start` has
\* exited with code 0 it is.
C18_ExitZeroMeansDone ==
    /\ (ctl_call.cmd = "stop" /\ ctl_call.rc = 0) => ~collector
    /\ (ctl_call.cmd = "start" /\ ctl_call.rc = 0) => collector

(***************************************************************************)
(* SpecConfig: APIRateLimiter() constructed over a configuration file.     *)
(* The file is readable or not; its data_sources.paid_apis maps names to   *)
(* cost_per_call.  Costs are multiples of 2^-16 dollars, for which the     *)
(* double quotient 2.0 / cost_per_call truncates to the whole quotient.    *)
(***************************************************************************)
\* "coingecko": 50 / 0.0, "santiment": 10 / 1.00, "whale_alert": 60 / 5.00
whale_alert_rpm == 60

F500 == <<327680, 0, 0>>

DefaultLimits ==
    [a \in {"coingecko", "santiment", "whale_alert"} |->
        IF a = "coingecko" THEN [rpm |-> coingecko_rpm, daily_cost_limit |-> FZero]
        ELSE IF a = "santiment" THEN [rpm |-> santiment_rpm, daily_cost_limit |-> F100]
        ELSE [rpm |-> whale_alert_rpm, daily_cost_limit |-> F500]]

Min(a, b) == IF a < b THEN a ELSE b

\* min(100, int(2.0 / cost_per_call))
max_calls_cap == 100

MaxDailyCalls(cost_per_call) == Min(max_calls_cap, (2 * F100[1]) \div cost_per_call[1])

\* the two assignments of load_config for one source
hours_per_day == 24

Derived(limits, cost_per_call) ==
    LET max_daily_calls == MaxDailyCalls(cost_per_call)
    IN  [rpm |-> Min(limits.rpm, max_daily_calls \div hours_per_day),
         daily_cost_limit |-> <<max_daily_calls * cost_per_call[1], 0, 0>>]

\* load_config() on an object whose rate_limits attribute is `table`, or
\* does not exist yet (~has_table): `api_name in self.rate_limits` then
\* raises AttributeError for the first entry of paid_apis.
LoadConfig(readable, paid_apis, has_table, table) ==
    LET paid == IF readable THEN paid_apis ELSE [a \in {} |-> FZero]
    IN  IF DOMAIN paid = {} THEN [raised |-> FALSE, table |-> table]
        ELSE IF ~has_table THEN [raised |-> TRUE, table |-> table]
        ELSE [raised |-> FALSE,
              table |-> [a \in DOMAIN table |->
                            IF a \in DOMAIN paid /\ FGt(paid[a], FZero)
                            THEN Derived(table[a], paid[a])
                            ELSE table[a]]]

\* __init__: load_config() first, then self.rate_limits = {defaults}
Construct(readable, paid_apis) ==
    LET loaded == LoadConfig(readable, paid_apis, FALSE, NoLimits)
    IN  IF loaded.raised
        THEN [done |-> TRUE, readable |-> readable, paid_apis |-> paid_apis, ok |-> FALSE,
              rate_limits |-> NoLimits]
        ELSE [done |-> TRUE, readable |-> readable, paid_apis |-> paid_apis, ok |-> TRUE,
              rate_limits |-> DefaultLimits]

\* names under paid_apis: two of the table and one that is not in it
ConfigNames == {"santiment", "whale_alert", "coinglass"}

\* cost_per_call: 0.0, 0.015625, 0.25, 0.5
Cost1_64 == <<1024, 0, 0>>

Cost025 == <<16384, 0, 0>>

ConfigCosts == {FZero, Cost1_64, Cost025, Cost050}

PaidApis == UNION {[names -> ConfigCosts] : names \in SUBSET ConfigNames}

configIdle ==
    <<now, emergency_stop, daily_costs, hourly_requests, alerts_sent, alerts, last,
      watchdogVars, ticks, rateHistory, costHistory, limiterHistory, monitorHistory,
      watchdogHistory, h_days, status_call, ctl_call, h_all, lateVars>>

ConstructCall ==
    /\ \E readable \in BOOLEAN, paid_apis \in PaidApis : built' = Construct(readable, paid_apis)
    /\ UNCHANGED configIdle

NextConfig == ConstructCall

SpecConfig == Init /\ [][NextConfig]_vars

\* the sources of the table that the configuration read prices above 0
Priced ==
    {a \in DOMAIN built.paid_apis \cap DOMAIN DefaultLimits :
        built.readable /\ FGt(built.paid_apis[a], FZero)}

\* C19: after a construction over a configuration that lists a source of
\* the table with cost_per_call > 0, __init__ has returned and the limits in
\* force for that source are the ones derived from its cost_per_call.
C19_ConfigLimitsInForce ==
    (built.done /\ Priced # {}) =>
        /\ built.ok
        /\ \A a \in Priced :
              built.rate_limits[a] = Derived(DefaultLimits[a], built.paid_apis[a])

(***************************************************************************)
(* SpecAlerts: send_alert called again and again on one alerts file, each  *)
(* alert told from the others by its message.                              *)
(***************************************************************************)
\* send_alert calls
MaxSent == 102

alertsIdle ==
    <<now, emergency_stop, daily_costs, hourly_requests, alerts_sent, watchdogVars, ticks,
      rateHistory, costHistory, limiterHistory, monitorHistory, watchdogHistory, h_days,
      status_call, ctl_call, built, lateVars>>

SendAlertCall ==
    /\ Len(h_all) < MaxSent
    /\ LET message == ToString(Len(h_all) + 1)
       IN  /\ SendAlert("API_CRITICAL", message)
           /\ h_all' = Append(h_all, Alert("API_CRITICAL", message))
    /\ UNCHANGED alertsIdle

NextAlerts == SendAlertCall

SpecAlerts == Init /\ [][NextAlerts]_vars

====
